---- MODULE Spec2Model ----
(***************************************************************************)
(* Job orchestration core of the survey transcription backend              *)
(* (src/backend/app.py) and the model fallback chain                       *)
(* (src/backend/openrouter_fallback.py).                                   *)
(*                                                                         *)
(* Abstractions used throughout:                                           *)
(*  - a job id (uuid4().hex) is a natural number; None is 0;               *)
(*  - a Python dict is a function whose DOMAIN is the set of its keys, so  *)
(*    an absent key is a name outside the DOMAIN;                          *)
(*  - a human-readable message is a record [tag, a, b]: the tag names the  *)
(*    format string of the source and a, b are the numbers formatted in;   *)
(*  - time.time() values are the token "t", a duration is "elapsed";       *)
(*  - a line of process output is a sequence of one-character strings.     *)
(***************************************************************************)
EXTENDS Integers, Sequences, FiniteSets, TLC

None == 0

\* The ids the submission handler hands out in one run: two jobs, the least
\* number that lets workers interleave.
JobIds == {1, 2}

VARIABLES
    jobs,       \* _jobs: job id -> dict of fields (app.py:74)
    shared,     \* job id -> TRUE when the list stored under log_tail is the
                \* very list object the local-transcriber callback appends to
    pc,         \* job id -> position of the job's worker thread
    loc,        \* job id -> locals of the worker and of the functions it calls
    own,        \* job id -> the record its own writers produce, replayed alone
    hist,       \* job id -> the status values the registry held, in order
    reader,     \* the status query handler job(): position, reference, response
    snaps,      \* registry states of the queried job since the handler's get
    op,         \* the last operation applied to a component driven on its own
                \* (JobStore, the failure classifier), with its arguments
    env,        \* the environment of the run: how long processes and servers go on
    chat        \* state of one chat_with_model_fallback call

vars == <<jobs, shared, pc, loc, own, hist, reader, snaps, op, env, chat>>

\* ---------------------------------------------------------------- JobStore
EmptyDict == [f \in {} |-> 0]

\* dict.update(kwargs): every key of kw is set, every other key is kept.
Merged(job, kw) ==
    [f \in (DOMAIN job) \cup (DOMAIN kw) |-> IF f \in DOMAIN kw THEN kw[f] ELSE job[f]]

\* A slip in the merge: the record is replaced by the fields of the call.
SetJobReplacing(js, job_id, kw) ==
    [i \in (DOMAIN js) \cup {job_id} |-> IF i = job_id THEN kw ELSE js[i]]

\* A slip in the merge: a fresh registry holding only the job of the call.
SetJobAlone(js, job_id, kw) ==
    (job_id :> Merged(IF job_id \in DOMAIN js THEN js[job_id] ELSE EmptyDict, kw))

\* _set_job(job_id, **kwargs), the registry after the call.
_set_job(js, job_id, kw) ==
    LET job == IF job_id \in DOMAIN js THEN js[job_id] ELSE EmptyDict
    IN  [i \in (DOMAIN js) \cup {job_id} |-> IF i = job_id THEN Merged(job, kw) ELSE js[i]]

\* _get_job(job_id): the dict stored under job_id itself (a reference, which
\* is the id here, since the dict object of an id is never replaced), or None.
_get_job(js, job_id) == IF job_id \in DOMAIN js THEN job_id ELSE None

Msg(tag, a, b) == [tag |-> tag, a |-> a, b |-> b]

\* dict.get(f): <<>> stands for None, <<v>> for the value v.
DictGet(d, f) == IF f \in DOMAIN d THEN <<d[f]>> ELSE <<>>

\* dict.get(f, default)
DictGetOr(d, f, default) == IF f \in DOMAIN d THEN d[f] ELSE default

\* ------------------------------------------------------------ text helpers
Digits == {"0", "1", "2", "3", "4", "5", "6", "7", "8", "9"}
White == {" ", "\n", "\t", "\r"}
Absent == -1    \* Optional[int] None

Min(a, b) == IF a < b THEN a ELSE b
Max(a, b) == IF a > b THEN a ELSE b

RECURSIVE LStrip(_)
LStrip(s) == IF s # <<>> /\ Head(s) \in White THEN LStrip(Tail(s)) ELSE s

RECURSIVE RStrip(_)
RStrip(s) ==
    IF s # <<>> /\ s[Len(s)] \in White THEN RStrip(SubSeq(s, 1, Len(s) - 1)) ELSE s

\* str.strip()
Strip(s) == RStrip(LStrip(s))

\* "".join(lines)
RECURSIVE Join(_)
Join(lines) == IF lines = <<>> THEN <<>> ELSE Head(lines) \o Join(Tail(lines))

\* A window that keeps the oldest entries.
FirstN(lst, n) == IF Len(lst) > n THEN SubSeq(lst, 1, n) ELSE lst

\* lst[-n:]
LastN(lst, n) == IF Len(lst) > n THEN SubSeq(lst, Len(lst) - n + 1, Len(lst)) ELSE lst

\* Case folding of re.IGNORECASE, on the letters the patterns use.
Lower(c) ==
    CASE c = "P" -> "p" [] c = "R" -> "r" [] c = "O" -> "o" [] c = "G" -> "g"
      [] c = "E" -> "e" [] c = "S" -> "s" [] c = "D" -> "d" [] OTHER -> c

\* One item of a compiled pattern: the character ch repeated lo..hi times.
Item(ch, lo, hi) == [ch |-> ch, lo |-> lo, hi |-> hi]
Lit(ch) == Item(ch, 1, 1)
Unbounded == 1000

\* The positions at which a match of pat that starts at s[i] can end
\* (the index of the first character after the match).
RECURSIVE Ends(_, _, _, _)
Ends(pat, s, i, icase) ==
    IF pat = <<>> THEN {i}
    ELSE LET it == Head(pat)
             same(c) == IF icase THEN Lower(c) = Lower(it.ch) ELSE c = it.ch
             runs == {n \in it.lo..Min(it.hi, Len(s) - i + 1) :
                         \A d \in 0..(n - 1) : same(s[i + d])}
         IN  UNION {Ends(Tail(pat), s, i + n, icase) : n \in runs}

\* pattern.search(s) with one group made of the items g0..g1 of the pattern:
\* <<>> when nothing matches, else <<group(1)>> of the leftmost match.
Search(pat, g0, g1, s, icase) ==
    LET starts == {i \in 1..(Len(s) + 1) : Ends(pat, s, i, icase) # {}}
    IN  IF starts = {} THEN <<>>
        ELSE LET i == CHOOSE x \in starts : \A y \in starts : x <= y
                 rest == SubSeq(pat, g0, Len(pat))
                 tail == SubSeq(pat, g1 + 1, Len(pat))
                 begs == {b \in Ends(SubSeq(pat, 1, g0 - 1), s, i, icase) :
                             Ends(rest, s, b, icase) # {}}
                 b == CHOOSE x \in begs : \A y \in begs : x >= y
                 fins == {e \in Ends(SubSeq(pat, g0, g1), s, b, icase) :
                             Ends(tail, s, e, icase) # {}}
                 e == CHOOSE x \in fins : \A y \in fins : x >= y
             IN  <<SubSeq(s, b, e - 1)>>

\* re.compile(r"progress\\s*=\\s*(\\d+)%", re.IGNORECASE): in a raw string the
\* two backslashes reach the regex compiler as an escaped backslash, so the
\* pattern is: progress, a backslash, any number of s, =, a backslash, any
\* number of s, then the group (a backslash and one or more d), then %.
progress_re ==
    <<Lit("p"), Lit("r"), Lit("o"), Lit("g"), Lit("r"), Lit("e"), Lit("s"), Lit("s"),
      Lit("\\"), Item("s", 0, Unbounded), Lit("="), Lit("\\"), Item("s", 0, Unbounded),
      Lit("\\"), Item("d", 1, Unbounded), Lit("%")>>

\* re.compile(r"(\\d{1,3})%"): the group is a backslash and one to three d.
any_percent_re == <<Lit("\\"), Item("d", 1, 3), Lit("%")>>

\* int(text) succeeds on a non-empty run of decimal digits.
IsInt(cs) == cs # <<>> /\ \A i \in 1..Len(cs) : cs[i] \in Digits

DigitVal(c) ==
    CASE c = "0" -> 0 [] c = "1" -> 1 [] c = "2" -> 2 [] c = "3" -> 3 [] c = "4" -> 4
      [] c = "5" -> 5 [] c = "6" -> 6 [] c = "7" -> 7 [] c = "8" -> 8 [] OTHER -> 9

RECURSIVE IntVal(_)
IntVal(cs) ==
    IF cs = <<>> THEN 0 ELSE 10 * IntVal(SubSeq(cs, 1, Len(cs) - 1)) + DigitVal(cs[Len(cs)])

\* The progress value on_line holds after the stripped line s, given the value
\* it held before (app.py:309-324); a failing int() leaves it as it was.
NextProgress(last_progress, s) ==
    LET m == Search(progress_re, 14, 15, s, TRUE)
        m2 == Search(any_percent_re, 1, 2, s, FALSE)
    IN  IF m # <<>>
        THEN IF IsInt(m[1]) THEN IntVal(m[1]) ELSE last_progress
        ELSE IF m2 # <<>> /\ IsInt(m2[1])
             THEN LET v == IntVal(m2[1])
                  IN  IF 0 <= v /\ v <= 100
                      THEN IF last_progress = Absent THEN v ELSE Max(last_progress, v)
                      ELSE last_progress
             ELSE last_progress

\* ------------------------------------------------------- process output
\* Lines as p.stdout yields them (with their newline), and the outputs a
\* process may produce: the n-th line of output sc is ScriptLine(sc, n).
LnA == <<"a", "\n">>
LnB == <<" ", "b", "\n">>
LnBlank == <<" ", "\n">>
LnPct == <<"5", "%", "\n">>
LnProg == <<"p", "r", "o", "g", "r", "e", "s", "s", "=", "4", "%", "\n">>
LnBsPct == <<"\\", "d", "%", "\n">>
LnProg42 == <<"p", "r", "o", "g", "r", "e", "s", "s", "=", "4", "2", "%", "\n">>
LnProg10 == <<"p", "r", "o", "g", "r", "e", "s", "s", "=", "1", "0", "%", "\n">>
LnProg150 == <<"p", "r", "o", "g", "r", "e", "s", "s", "=", "1", "5", "0", "%", "\n">>
LnHello30 == <<"h", "e", "l", "l", "o", " ", "3", "0", "%", "\n">>
LnHello10 == <<"h", "e", "l", "l", "o", " ", "1", "0", "%", "\n">>
Scripts ==
    << <<LnA>>, <<LnA, LnB, LnBlank>>, <<LnProg, LnBsPct, LnPct>>,
       <<LnProg42, LnProg10>>, <<LnHello30, LnHello10>>, <<LnProg150, LnBlank, LnA>> >>
\* The outputs tried when jobs run side by side.
FewScripts == {1, 2, 3}
ScriptLine(sc, n) == Scripts[sc][((n - 1) % Len(Scripts[sc])) + 1]

\* Lines a process emits at most when one job runs alone (MaxLines) and
\* when jobs run side by side (ShortLines).
MaxLines == 82
ShortLines == 1

\* The tail window of the local-transcriber callback (app.py:306-307) and the
\* default capture cap of _run_stream (app.py:177).
TailMax == 80
MaxCaptureLines == 5000

\* -------------------------------------------------------------- job state
LocInit ==
    [mode |-> "none", log_tail |-> <<>>, last_progress |-> Absent, script |-> 0,
     k |-> 0, line |-> <<>>, out_lines |-> <<>>, rc |-> 0, invoked |-> <<>>,
     text |-> "", cfg |-> <<>>, res |-> <<>>, poll_count |-> 0, max_polls |-> 0,
     status |-> 3, busy |-> 0, order |-> <<>>, sent |-> 0, pub |-> 0, est |-> <<0>>,
     ok |-> <<>>, found |-> "unread"]

ReaderIdle == [pc |-> "idle", j |-> None, got |-> EmptyDict, resp |-> EmptyDict, live |-> FALSE]

ChatIdle ==
    [pc |-> "idle", cands |-> <<>>, i |-> 0, calls |-> <<>>, outs |-> <<>>,
     errors |-> <<>>, last_err |-> <<>>, result |-> <<>>]

InitWith(e) ==
    /\ jobs = EmptyDict
    /\ shared = [j \in JobIds |-> FALSE]
    /\ pc = [j \in JobIds |-> "none"]
    /\ loc = [j \in JobIds |-> LocInit]
    /\ own = [j \in JobIds |-> EmptyDict]
    /\ hist = [j \in JobIds |-> <<>>]
    /\ reader = ReaderIdle
    /\ snaps = {}
    /\ op = [name |-> "init", id |-> None, kw |-> EmptyDict, ret |-> None]
    /\ env = e
    /\ chat = ChatIdle

\* The registry record of job j, seen through the reader's reference.
Watched(j) == reader.pc # "idle" /\ reader.j = j

\* The bookkeeping that follows a change of job j's record: what its own
\* writers produced, the status values it showed, the states a reader saw.
Track(j, kw, sh) ==
    /\ own' = [own EXCEPT ![j] = Merged(@, kw)]
    /\ hist' = [hist EXCEPT ![j] =
                  IF j \in DOMAIN jobs' /\ "status" \in DOMAIN jobs'[j]
                     /\ (@ = <<>> \/ @[Len(@)] # jobs'[j].status)
                  THEN Append(@, jobs'[j].status) ELSE @]
    /\ shared' = [shared EXCEPT ![j] = IF "log_tail" \in DOMAIN kw THEN sh ELSE @]
    /\ snaps' = IF Watched(j) /\ j \in DOMAIN jobs' THEN snaps \cup {jobs'[j]} ELSE snaps

\* One call _set_job(j, **kw) by job j's handler or worker; sh tells whether
\* the list passed as log_tail stays in use by the caller after the call.
Write(j, kw, sh) ==
    /\ jobs' = _set_job(jobs, j, kw)
    /\ Track(j, kw, sh)

Goto(j, where) == pc' = [pc EXCEPT ![j] = where]

\* The locals of a worker that has returned: nothing but the record of what
\* it ran.
Ended(l) == [LocInit EXCEPT !.mode = l.mode, !.invoked = l.invoked]

\* ---------------------------------------------------- submission handler
Modes == {"local", "api"}

\* transcribe(), app.py:1119-1155: a request that fails validation (mode,
\* model file, remote configuration, file field, file name) is answered 400
\* before anything is written.
transcribe_reject ==
    /\ \E j \in JobIds : pc[j] = "none"
    /\ \E why \in {"mode", "model", "config", "file", "filename"} : UNCHANGED vars

\* transcribe(), app.py:1157-1168: a fresh id, then the queued write.
Accept(j, m) ==
    /\ pc[j] = "none"
    /\ \A i \in JobIds : i < j => pc[i] # "none"
    /\ env.alone => \A i \in JobIds : pc[i] = "none"
    /\ m \in env.modes
    /\ Write(j, [status |-> "queued", message |-> Msg("queued", 0, 0),
                 created_at |-> "t", original_filename |-> "f"], FALSE)
    /\ loc' = [loc EXCEPT ![j].mode = m]
    /\ Goto(j, "accepted")
    /\ UNCHANGED <<reader, env, chat>>

transcribe_accept(j, m) == Accept(j, m) /\ UNCHANGED op

\* transcribe(), app.py:1169-1170: the worker thread is started.
transcribe_start(j) ==
    /\ pc[j] = "accepted"
    /\ Goto(j, "w_start")
    /\ UNCHANGED <<jobs, shared, loc, own, hist, reader, snaps, op, env, chat>>

\* The request and the configuration as transcribe() reads them.  A form
\* field or a configuration entry is <<>> when missing and <<chars>>
\* otherwise; file is "none" without a file field, "unnamed" for a file
\* whose name is empty, "named" otherwise.
ModeForms ==
    {<<>>, <<<<>>>>, <<<<"l", "o", "c", "a", "l">>>>, <<<<" ", "a", "P", "i", "\n">>>>,
     <<<<"x">>>>}
SttConfig(type, appid, key, secret, url) ==
    [stt_api_type |-> type, stt_api_appid |-> appid, stt_api_key |-> key,
     stt_api_secret_key |-> secret, stt_api_url |-> url]
Xunfei == <<<<"x", "u", "n", "f", "e", "i", " ">>>>
SttConfigs ==
    {SttConfig(Xunfei, <<<<"v">>>>, <<<<"v">>>>, <<<<" ">>>>, <<>>),
     SttConfig(Xunfei, <<<<"v">>>>, <<>>, <<<<"v">>>>, <<>>),
     SttConfig(Xunfei, <<<<"v">>>>, <<>>, <<<<" ">>>>, <<<<"v">>>>),
     SttConfig(Xunfei, <<<<" ">>>>, <<<<"v">>>>, <<<<"v">>>>, <<<<"v">>>>),
     SttConfig(<<>>, <<>>, <<>>, <<>>, <<<<"v">>>>),
     SttConfig(<<<<"x">>>>, <<<<"v">>>>, <<<<"v">>>>, <<>>, <<<<" ">>>>),
     SttConfig(<<>>, <<>>, <<>>, <<>>, <<>>)}
Requests ==
    [mode : ModeForms, model_exists : BOOLEAN, file : {"none", "unnamed", "named"},
     cfg : SttConfigs]

\* form.get(name, default).strip().lower() and cfg.get(name, "").strip()
Field(entry, default) ==
    LET chars == Strip(IF entry = <<>> THEN default ELSE entry[1])
    IN  [i \in 1..Len(chars) |-> Lower(chars[i])]

\* A validation that does not look at the file.
ValidationNoFile(req) ==
    IF Field(req.mode, <<"l", "o", "c", "a", "l">>) = <<"a", "p", "i">> THEN "api" ELSE "local"

\* transcribe(), app.py:1119-1155: the mode ("local" or "api") of a request
\* that passes, else what it is rejected for.
Validation(req) ==
    LET mode == Field(req.mode, <<"l", "o", "c", "a", "l">>)
        set(entry) == Field(entry, <<>>) # <<>>
    IN  IF mode \notin {<<"l", "o", "c", "a", "l">>, <<"a", "p", "i">>} THEN "bad_mode"
        ELSE IF mode = <<"l", "o", "c", "a", "l">> /\ ~req.model_exists THEN "no_model"
        ELSE IF mode = <<"a", "p", "i">>
                /\ Field(req.cfg.stt_api_type, <<>>) = <<"x", "u", "n", "f", "e", "i">>
                /\ (~set(req.cfg.stt_api_appid)
                      \/ (~set(req.cfg.stt_api_key) /\ ~set(req.cfg.stt_api_secret_key)))
             THEN "no_config"
        ELSE IF mode = <<"a", "p", "i">>
                /\ Field(req.cfg.stt_api_type, <<>>) # <<"x", "u", "n", "f", "e", "i">>
                /\ ~set(req.cfg.stt_api_url)
             THEN "no_config"
        ELSE IF req.file = "none" THEN "no_file"
        ELSE IF req.file = "unnamed" THEN "no_filename"
        ELSE IF mode = <<"a", "p", "i">> THEN "api" ELSE "local"

\* transcribe(), app.py:1116-1172, for any request: the answer 400 of a
\* request that fails validation, else the queued write of a fresh job.
transcribe_request ==
    \E req \in Requests :
        LET v == Validation(req)
        IN  IF v \notin Modes
            THEN /\ op' = [name |-> "transcribe", id |-> None, kw |-> req,
                           ret |-> [code |-> 400, error |-> v]]
                 /\ UNCHANGED <<jobs, shared, pc, loc, own, hist, reader, snaps, env, chat>>
            ELSE \E j \in JobIds :
                   /\ Accept(j, v)
                   /\ op' = [name |-> "transcribe", id |-> j, kw |-> req,
                             ret |-> [code |-> 200, error |-> ""]]

\* ------------------------------------------------------------ the worker
\* The programs run ("ffmpeg", "whisper") and the requests sent ("remote") for
\* job j, in order; the same kind repeated in a row is listed once.
Did(j, what) ==
    [loc EXCEPT ![j].invoked = IF @ # <<>> /\ @[Len(@)] = what THEN @ ELSE Append(@, what)]

\* _worker, app.py:1039-1040: the running write, outside the try block.
worker_begin(j) ==
    /\ pc[j] = "w_start"
    /\ Write(j, [status |-> "running", message |-> Msg("begin", 0, 0),
                 started_at |-> "t"], FALSE)
    /\ Goto(j, IF loc[j].mode = "api" THEN "a_pre" ELSE "l_model")
    /\ UNCHANGED <<loc, reader, op, env, chat>>

\* _worker, app.py:1064-1073: the model file is looked up again.
local_model(j) ==
    /\ pc[j] = "l_model"
    /\ \E exists \in BOOLEAN :
         IF exists
         THEN /\ Write(j, [message |-> Msg("ffmpeg", 0, 0), progress |-> 0], FALSE)
              /\ Goto(j, "l_ffmpeg")
         ELSE /\ Write(j, [status |-> "error", message |-> Msg("no_model", 0, 0)], FALSE)
              /\ Goto(j, "return")
    /\ UNCHANGED <<loc, reader, op, env, chat>>

\* _to_wav_16k_mono through _run, app.py:152-170 and 258-273: the exit code
\* of the transcoder, 127 when the binary is missing; "raise" is any other
\* exception of Popen, which _run does not catch.
RunOutcomes == {"ok", "failed", "missing", "raise"}
RunCode(o) == CASE o = "ok" -> 0 [] o = "missing" -> 127 [] OTHER -> 1
Diag127 == <<"1", "2", "7", "\n">>
RunLog(o) == IF o = "missing" THEN Diag127 ELSE <<"f", "\n">>

\* A worker that goes on to the recognizer whatever the transcoder gave.
LocalFfmpegUnchecked(j) ==
    /\ pc[j] = "l_ffmpeg"
    /\ \E o \in RunOutcomes \ {"raise"} :
         loc' = [Did(j, "ffmpeg") EXCEPT ![j].rc = RunCode(o), ![j].ok = <<RunCode(o) = 0>>]
    /\ Write(j, [status |-> "running", message |-> Msg("whisper", 0, 0),
                 progress |-> 0], FALSE)
    /\ Goto(j, "l_spawn")
    /\ UNCHANGED <<reader, op, env, chat>>

\* _worker, app.py:1074-1079; ok is the first element of the pair the
\* transcoder returned (<<>> while nothing was returned).
local_ffmpeg(j) ==
    /\ pc[j] = "l_ffmpeg"
    /\ \E o \in RunOutcomes :
         /\ loc' = [Did(j, "ffmpeg") EXCEPT ![j].rc = IF o = "raise" THEN @ ELSE RunCode(o),
                                            ![j].ok = IF o = "raise" THEN @
                                                      ELSE <<RunCode(o) = 0>>]
         /\ CASE o = "raise" ->
                   /\ Goto(j, "except")
                   /\ UNCHANGED <<jobs, own, hist, shared, snaps>>
              [] RunCode(o) = 0 ->
                   /\ Write(j, [status |-> "running", message |-> Msg("whisper", 0, 0),
                                progress |-> 0], FALSE)
                   /\ Goto(j, "l_spawn")
              [] OTHER ->
                   /\ Write(j, [status |-> "error", message |-> Msg("ffmpeg_failed", 0, 0),
                                log |-> RunLog(o)], FALSE)
                   /\ Goto(j, "return")
    /\ UNCHANGED <<reader, op, env, chat>>

\* A runner that lets the exception of a missing binary escape.
StreamSpawnRaising(j) ==
    /\ pc[j] = "l_spawn"
    /\ \E o \in {"started", "missing", "raise"} :
         CASE o = "raise" ->
                /\ loc' = Did(j, "whisper")
                /\ Goto(j, "except")
           [] o = "missing" ->
                /\ loc' = [Did(j, "whisper") EXCEPT ![j].rc = 127]
                /\ Goto(j, "except")
           [] OTHER ->
                /\ \E sc \in env.scripts :
                     loc' = [Did(j, "whisper") EXCEPT ![j].script = sc, ![j].k = 0,
                                ![j].pub = 0,
                                ![j].out_lines = <<>>, ![j].log_tail = <<>>,
                                ![j].last_progress = Absent]
                /\ Goto(j, "l_stream")
    /\ UNCHANGED <<jobs, shared, own, hist, reader, snaps, op, env, chat>>

\* _run_stream, app.py:183-197: the recognizer is started; a missing binary
\* gives (127, diagnostic) without a line being read.
stream_spawn(j) ==
    /\ pc[j] = "l_spawn"
    /\ \E o \in {"started", "missing", "raise"} :
         CASE o = "raise" ->
                /\ loc' = Did(j, "whisper")
                /\ Goto(j, "except")
           [] o = "missing" ->
                /\ loc' = [Did(j, "whisper") EXCEPT ![j].rc = 127,
                                                     ![j].out_lines = <<Diag127>>]
                /\ Goto(j, "l_done")
           [] OTHER ->
                /\ \E sc \in env.scripts :
                     loc' = [Did(j, "whisper") EXCEPT ![j].script = sc, ![j].k = 0,
                                ![j].pub = 0,
                                ![j].out_lines = <<>>, ![j].log_tail = <<>>,
                                ![j].last_progress = Absent]
                /\ Goto(j, "l_stream")
    /\ UNCHANGED <<jobs, shared, own, hist, reader, snaps, op, env, chat>>

\* A runner that reads the next line while the callback has not written yet.
StreamNextEarly(j) ==
    /\ pc[j] \in {"l_stream", "l_publish"}
    /\ \/ /\ loc[j].k < env.lineCap
          /\ loc' = [loc EXCEPT ![j].k = @ + 1,
                                ![j].line = ScriptLine(loc[j].script, loc[j].k + 1)]
          /\ Goto(j, "l_online")
       \/ /\ pc[j] = "l_stream"
          /\ \E rc \in {0, 1} : loc' = [loc EXCEPT ![j].rc = rc]
          /\ Goto(j, "l_done")
    /\ UNCHANGED <<jobs, shared, own, hist, reader, snaps, op, env, chat>>

\* _run_stream, app.py:198 and 207: the next line of the process arrives, or
\* its output ends and p.wait() gives the exit code.
stream_next(j) ==
    /\ pc[j] = "l_stream"
    /\ \/ /\ loc[j].k < env.lineCap
          /\ loc' = [loc EXCEPT ![j].k = @ + 1,
                                ![j].line = ScriptLine(loc[j].script, loc[j].k + 1)]
          /\ Goto(j, "l_online")
       \/ /\ \E rc \in {0, 1} : loc' = [loc EXCEPT ![j].rc = rc]
          /\ Goto(j, "l_done")
    /\ UNCHANGED <<jobs, shared, own, hist, reader, snaps, op, env, chat>>

\* A capture buffer that keeps its oldest lines.
CapturedOldest(out_lines, line, max_capture_lines) ==
    FirstN(Append(out_lines, line), max_capture_lines)

\* _run_stream, app.py:204-206: the line joins the capture buffer.
Captured(out_lines, line, max_capture_lines) ==
    LET grown == Append(out_lines, line)
    IN  IF Len(grown) > max_capture_lines THEN LastN(grown, max_capture_lines) ELSE grown

\* list.append on the callback's tail window: the list object is changed in
\* place, so the registry (and a response being built) that holds this very
\* object changes with it.
AppendInPlace(j, x) ==
    LET grown == Append(loc[j].log_tail, x)
    IN  /\ loc' = [loc EXCEPT ![j].log_tail = grown]
        /\ jobs' = IF shared[j] /\ j \in DOMAIN jobs
                   THEN [jobs EXCEPT ![j] = Merged(@, [log_tail |-> grown])] ELSE jobs
        /\ own' = IF shared[j]
                  THEN [own EXCEPT ![j] = Merged(@, [log_tail |-> grown])] ELSE own
        /\ reader' = IF Watched(j) /\ reader.live
                     THEN [reader EXCEPT !.resp = Merged(@, [log_tail |-> grown])]
                     ELSE reader
        /\ snaps' = IF Watched(j) /\ j \in DOMAIN jobs' THEN snaps \cup {jobs'[j]} ELSE snaps

\* on_line, app.py:299-305: an empty line returns at once (and _run_stream
\* captures it); any other line is appended to the tail window.
on_line_append(j) ==
    /\ pc[j] = "l_online"
    /\ LET s == Strip(loc[j].line)
       IN  IF s = <<>>
           THEN /\ loc' = [loc EXCEPT ![j].out_lines =
                             Captured(@, loc[j].line, MaxCaptureLines)]
                /\ Goto(j, "l_stream")
                /\ UNCHANGED <<jobs, own, reader, snaps>>
           ELSE /\ AppendInPlace(j, s)
                /\ Goto(j, "l_publish")
    /\ UNCHANGED <<shared, hist, op, env, chat>>

\* on_line, app.py:306-335, then _run_stream, app.py:204-206: the window is
\* cut to its last 80 lines (a new list), the progress is scraped and the
\* registry is written.
on_line_publish(j) ==
    /\ pc[j] = "l_publish"
    /\ LET s == Strip(loc[j].line)
           cut == Len(loc[j].log_tail) > TailMax
           tail == IF cut THEN LastN(loc[j].log_tail, TailMax) ELSE loc[j].log_tail
           p == NextProgress(loc[j].last_progress, s)
       IN  /\ loc' = [loc EXCEPT ![j].log_tail = tail, ![j].last_progress = p,
                         ![j].pub = loc[j].k,
                         ![j].out_lines = Captured(@, loc[j].line, MaxCaptureLines)]
           /\ IF p # Absent
              THEN Write(j, [progress |-> p, message |-> Msg("transcribing", p, 0),
                             log_tail |-> tail], TRUE)
              ELSE Write(j, [log_tail |-> tail], TRUE)
           /\ reader' = IF cut /\ Watched(j) THEN [reader EXCEPT !.live = FALSE] ELSE reader
    /\ Goto(j, "l_stream")
    /\ UNCHANGED <<op, env, chat>>

\* A worker that stores what the recognizer left behind when it failed.
LocalFinishKeepingText(j) ==
    /\ pc[j] = "l_done"
    /\ Write(j, [status |-> IF loc[j].rc # 0 THEN "error" ELSE "done",
                 message |-> Msg("done", 0, 0), text |-> "words",
                 log |-> Join(loc[j].out_lines)], FALSE)
    /\ Goto(j, IF loc[j].rc # 0 THEN "return" ELSE "post")
    /\ UNCHANGED <<loc, reader, op, env, chat>>

\* _worker, app.py:1081-1096: the recognizer has returned.  The transcript
\* file is looked up under both names; "raise" is a failing read_text.
\* found keeps whether a file was read ("read") or none existed.
local_finish(j) ==
    /\ pc[j] = "l_done"
    /\ LET whisper_log == Join(loc[j].out_lines)
       IN  IF loc[j].rc # 0
           THEN /\ Write(j, [status |-> "error", message |-> Msg("whisper_failed", 0, 0),
                             log |-> whisper_log], FALSE)
                /\ Goto(j, "return")
                /\ UNCHANGED loc
           ELSE \E found \in {"main", "alt", "neither", "raise"} :
                  IF found = "raise"
                  THEN /\ Goto(j, "except")
                       /\ UNCHANGED <<loc, jobs, own, hist, shared, snaps>>
                  ELSE \E content \in {"", "words"} :
                         LET text == IF found = "neither" THEN "" ELSE content
                         IN  /\ loc' = [loc EXCEPT ![j].text = text,
                                               ![j].found = IF found = "neither"
                                                            THEN found ELSE "read"]
                             /\ Write(j, [status |-> "done", message |-> Msg("done", 0, 0),
                                          text |-> text, finished_at |-> "t",
                                          transcribe_duration |-> "elapsed",
                                          log |-> whisper_log], FALSE)
                             /\ Goto(j, "post")
    /\ UNCHANGED <<reader, op, env, chat>>

\* _worker, app.py:1098-1101: a copy of the transcript is written to the
\* survey directory; write_text may raise (OSError).
worker_copy(j) ==
    /\ pc[j] = "post"
    /\ \E o \in {"ok", "raise"} : Goto(j, IF o = "ok" THEN "return" ELSE "except")
    /\ UNCHANGED <<jobs, shared, loc, own, hist, reader, snaps, op, env, chat>>

\* _worker returns: the thread ends and its locals are gone.
worker_return(j) ==
    /\ pc[j] = "return"
    /\ loc' = [loc EXCEPT ![j] = Ended(@)]
    /\ Goto(j, "returned")
    /\ UNCHANGED <<jobs, shared, own, hist, reader, snaps, op, env, chat>>

\* An except clause that returns without writing.
WorkerExceptSilent(j) ==
    /\ pc[j] = "except"
    /\ Goto(j, "return")
    /\ UNCHANGED <<jobs, shared, loc, own, hist, reader, snaps, op, env, chat>>

\* An except clause that clears the result of the job.
WorkerExceptClearing(j) ==
    /\ pc[j] = "except"
    /\ Write(j, [status |-> "error", message |-> Msg("exception", 0, 0),
                 text |-> "", progress |-> 0], FALSE)
    /\ Goto(j, "return")
    /\ UNCHANGED <<loc, reader, op, env, chat>>

\* _worker, app.py:1102-1103: except Exception.
worker_except(j) ==
    /\ pc[j] = "except"
    /\ Write(j, [status |-> "error", message |-> Msg("exception", 0, 0)], FALSE)
    /\ Goto(j, "return")
    /\ UNCHANGED <<loc, reader, op, env, chat>>

\* ------------------------------------------------------- remote backend
\* A result pair (ok, text or error message).  hint tells whether the error
\* message contains one of the two phrases _api_transcribe looks for
\* (app.py:980); only messages that quote the provider or an exception can.
Res(ok, text, hint) ==
    <<[ok |-> ok, text |-> text, hint |-> hint, why |-> IF ok THEN "text" ELSE "failed",
       polls |-> 0]>>
Fail(hint) == Res(FALSE, "", hint)

\* The pair returned after the polling loop (app.py:736 and 947): the
\* message says that the transcription timed out after poll_count polls.
TimedOut(poll_count) ==
    <<[ok |-> FALSE, text |-> "", hint |-> FALSE, why |-> "timeout", polls |-> poll_count]>>

\* The locals after one more result request of job j has been sent.
Sent(j) == [Did(j, "remote") EXCEPT ![j].sent = @ + 1]

\* A log line written by the remote code: one formatted piece of text.
Note(x) == <<x>>

\* What _load_local_config returns of the remote settings: which are non-empty.
Configs ==
    [api_type : {"xunfei"}, appid : BOOLEAN, key : BOOLEAN, secret : BOOLEAN, url : {FALSE}]
    \cup [api_type : {"generic"}, appid : {FALSE}, key : {FALSE}, secret : {FALSE},
          url : BOOLEAN]

\* Polls a remote server answers "in progress" at most: when jobs run side by
\* side (ShortPolls), and when a job runs alone (MaxBusy, which is beyond
\* every attempt budget, so that a budget can run out).
ShortPolls == 1
MaxBusy == 150

\* taskEstimateTime values (ms) an upload response may carry; 60000 is also
\* the default when it carries none (app.py:538).
Estimates == {60000, 240000}

\* _worker, app.py:1044-1045.
api_pre(j) ==
    /\ pc[j] = "a_pre"
    /\ Write(j, [message |-> Msg("ffmpeg", 0, 0), progress |-> 10], FALSE)
    /\ Goto(j, "a_ffmpeg")
    /\ UNCHANGED <<loc, reader, op, env, chat>>

\* _worker, app.py:1046-1051.
api_ffmpeg(j) ==
    /\ pc[j] = "a_ffmpeg"
    /\ \E o \in RunOutcomes :
         /\ loc' = [Did(j, "ffmpeg") EXCEPT ![j].rc = IF o = "raise" THEN @ ELSE RunCode(o),
                                            ![j].ok = IF o = "raise" THEN @
                                                      ELSE <<RunCode(o) = 0>>]
         /\ CASE o = "raise" ->
                   /\ Goto(j, "except")
                   /\ UNCHANGED <<jobs, own, hist, shared, snaps>>
              [] RunCode(o) = 0 ->
                   /\ Write(j, [message |-> Msg("api", 0, 0), progress |-> 30], FALSE)
                   /\ Goto(j, "a_cfg")
              [] OTHER ->
                   /\ Write(j, [status |-> "error", message |-> Msg("ffmpeg_failed", 0, 0),
                                log |-> RunLog(o)], FALSE)
                   /\ Goto(j, "return")
    /\ UNCHANGED <<reader, op, env, chat>>

\* A step of the remote code that returns (False, message) without writing.
GiveUp(j, l, hint, where) ==
    /\ loc' = [l EXCEPT ![j].res = Fail(hint)]
    /\ Goto(j, where)
    /\ UNCHANGED <<jobs, own, hist, shared, snaps>>

\* A step of Variant B that returns (False, message) because the provider
\* turned the request down: an HTTP status other than 200, an envelope code
\* that is not a success code, the failed status.  The message quotes the
\* provider's response.
Reject(j, l, hint, where) ==
    /\ loc' = [l EXCEPT ![j].res = [Fail(hint) EXCEPT ![1].why = "rejected"]]
    /\ Goto(j, where)
    /\ UNCHANGED <<jobs, own, hist, shared, snaps>>

\* _api_transcribe, app.py:960-984 and 995-1003: the configuration is read
\* and the backend chosen.
api_select(j) ==
    /\ pc[j] = "a_cfg"
    /\ \E c \in Configs :
         LET l == [loc EXCEPT ![j].cfg = <<c>>]
         IN  IF c.api_type = "xunfei"
             THEN CASE ~c.appid -> GiveUp(j, l, FALSE, "a_result")
                    [] ~c.key /\ ~c.secret -> GiveUp(j, l, FALSE, "a_result")
                    [] c.key /\ c.secret ->
                         /\ Write(j, [log_tail |-> <<Note("try new api")>>], FALSE)
                         /\ loc' = l
                         /\ Goto(j, "b_begin")
                    [] OTHER ->
                         /\ Write(j, [log_tail |-> <<Note("use http api")>>], FALSE)
                         /\ loc' = l
                         /\ Goto(j, "a_sign")
             ELSE IF ~c.url
                  THEN GiveUp(j, l, FALSE, "a_result")
                  ELSE /\ Write(j, [message |-> Msg("api", 0, 0), progress |-> 50], FALSE)
                       /\ loc' = l
                       /\ Goto(j, "g_call")
    /\ UNCHANGED <<reader, op, env, chat>>

\* _api_transcribe, app.py:1005-1031: the generic endpoint, one request.
generic_call(j) ==
    /\ pc[j] = "g_call"
    /\ \E o \in {"text", "empty", "status", "raise"} :
         loc' = [Did(j, "remote") EXCEPT ![j].res =
                    IF o = "text" THEN Res(TRUE, "words", FALSE) ELSE Fail(FALSE)]
    /\ Goto(j, "a_result")
    /\ UNCHANGED <<jobs, shared, own, hist, reader, snaps, op, env, chat>>

\* _api_transcribe, app.py:978-984: Variant B has returned.
api_after_new(j) ==
    /\ pc[j] = "b_ret"
    /\ LET result == loc[j].res[1]
       IN  IF result.ok \/ ~result.hint
           THEN /\ Goto(j, "a_result")
                /\ UNCHANGED <<jobs, own, hist, shared, snaps>>
           ELSE /\ Write(j, [log_tail |-> <<Note("use http api")>>], FALSE)
                /\ Goto(j, "a_sign")
    /\ UNCHANGED <<loc, reader, op, env, chat>>

\* A choice of credential that prefers the secret.
SecretKeyLast(c) == IF c.secret THEN "secret" ELSE "key"

\* _api_transcribe, app.py:986: the credential Variant A signs with.
SecretKey(c) == IF c.key THEN "key" ELSE "secret"

\* _api_transcribe, app.py:987-992.  The configuration and Variant B's result
\* are not read after this.
api_sign(j) ==
    /\ pc[j] = "a_sign"
    /\ Write(j, [log_tail |-> <<<<"sign with", SecretKey(loc[j].cfg[1])>>>>], FALSE)
    /\ loc' = [loc EXCEPT ![j].cfg = <<>>, ![j].res = <<>>]
    /\ Goto(j, "x_begin")
    /\ UNCHANGED <<reader, op, env, chat>>

\* _worker, app.py:1052-1060: the remote backend has returned.
api_finish(j) ==
    /\ pc[j] = "a_result"
    /\ LET result == loc[j].res[1]
       IN  IF ~result.ok
           THEN /\ Write(j, [status |-> "error", message |-> Msg("api_failed", 0, 0)], FALSE)
                /\ Goto(j, "return")
                /\ UNCHANGED loc
           ELSE /\ loc' = [loc EXCEPT ![j].text = result.text]
                /\ Write(j, [status |-> "done", message |-> Msg("done", 0, 0),
                             text |-> result.text, finished_at |-> "t",
                             transcribe_duration |-> "elapsed"], FALSE)
                /\ Goto(j, "post")
    /\ UNCHANGED <<reader, op, env, chat>>

\* A progress that grows with every poll and has no ceiling.
PollProgressLinear(poll_count, max_polls) == 50 + poll_count

\* A progress that reaches its ceiling after 40 polls.
PollProgressEarly(poll_count, max_polls) == 50 + Min(40, poll_count)

\* The progress written at poll number poll_count (app.py:547 and 836).
PollProgress(poll_count, max_polls) == 50 + Min(40, (poll_count * 40) \div max_polls)

\* ------------------------------------------- Variant B (current protocol)
\* One plain write of Variant B or A followed by the next step.
Step(j, from, kw, to) ==
    /\ pc[j] = from
    /\ Write(j, kw, FALSE)
    /\ Goto(j, to)
    /\ UNCHANGED <<loc, reader, op, env, chat>>

\* _xunfei_transcribe_new_api, app.py:402-483: requests may be missing; the
\* file size, the duration probe and the signature come before the first
\* write, and an exception there is caught at app.py:740.
new_begin(j) ==
    /\ pc[j] = "b_begin"
    /\ \E o \in {"ok", "no_requests", "raise"} :
         CASE o = "no_requests" -> GiveUp(j, loc, FALSE, "b_ret")
           [] o = "raise" -> \E h \in BOOLEAN : GiveUp(j, loc, h, "b_ret")
           [] OTHER ->
                /\ Write(j, [message |-> Msg("upload_new", 0, 0), progress |-> 20], FALSE)
                /\ loc' = [loc EXCEPT ![j].poll_count = 0, ![j].busy = 0, ![j].sent = 0]
                /\ Goto(j, "b_log1")
    /\ UNCHANGED <<reader, op, env, chat>>

\* app.py:484 and 485.
new_log_url(j) == Step(j, "b_log1", [log_tail |-> <<Note("upload url")>>], "b_log2")
new_log_sig(j) == Step(j, "b_log2", [log_tail |-> <<Note("signature")>>], "b_post")

\* What the upload request gives: an exception of requests.post, or a
\* response that is then examined (app.py:504-532).
Uploads == {"http_error", "not_json", "rejected", "no_order", "bad_shape", "ok"}

\* app.py:487-501.
new_upload(j) ==
    /\ pc[j] = "b_post"
    /\ \/ \E h \in BOOLEAN : GiveUp(j, Did(j, "remote"), h, "b_ret")
       \/ \E u \in Uploads :
            /\ loc' = [Did(j, "remote") EXCEPT ![j].order = <<u>>]
            /\ Write(j, [log_tail |-> <<Note("upload status")>>], FALSE)
            /\ Goto(j, "b_log3")
    /\ UNCHANGED <<reader, op, env, chat>>

\* app.py:502.
new_log_resp(j) == Step(j, "b_log3", [log_tail |-> <<Note("upload response")>>], "b_check")

\* int(a / b) for b > 0: the quotient cut towards zero.
IntDiv(a, b) == IF a >= 0 THEN a \div b ELSE 0 - ((0 - a) \div b)

\* A budget that does not follow the estimate.
NewMaxPollsFlat(task_estimate_time) == 120

\* app.py:537-540: the attempt budget from the estimate (ms).
NewMaxPolls(task_estimate_time) ==
    LET max_wait_seconds == Max(600, IntDiv(task_estimate_time, 1000) * 3)
    IN  Max(120, max_wait_seconds \div 5)

\* app.py:724-732: the seconds slept before the next poll, from the
\* estimate (ms) of the poll response; task_estimate / 1000 > 60 is
\* task_estimate > 60000.
WaitTime(task_estimate) ==
    IF task_estimate > 0
    THEN IF task_estimate > 60 * 1000 THEN 10
         ELSE IF task_estimate > 30 * 1000 THEN 7 ELSE 5
    ELSE 5

\* app.py:504-535: the upload response is examined.
new_check(j) ==
    /\ pc[j] = "b_check"
    /\ IF loc[j].order[1] # "ok"
       THEN \E h \in BOOLEAN :
              IF loc[j].order[1] \in {"http_error", "rejected"}
              THEN Reject(j, [loc EXCEPT ![j].order = <<>>], h, "b_ret")
              ELSE GiveUp(j, [loc EXCEPT ![j].order = <<>>], h, "b_ret")
       ELSE /\ Write(j, [message |-> Msg("waiting", 0, 0), progress |-> 50], FALSE)
            /\ Goto(j, "b_budget")
            /\ loc' = [loc EXCEPT ![j].order = <<>>]
    /\ UNCHANGED <<reader, op, env, chat>>

\* app.py:537-543: the budget is computed and logged; an estimate that is
\* no number raises, which is caught at app.py:740.
new_budget(j) ==
    /\ pc[j] = "b_budget"
    /\ \/ \E h \in BOOLEAN : GiveUp(j, loc, h, "b_ret")
       \/ \E e \in Estimates :
            /\ loc' = [loc EXCEPT ![j].max_polls = NewMaxPolls(e)]
            /\ Write(j, [log_tail |-> <<Note("estimate")>>], FALSE)
            /\ Goto(j, "b_loop")
    /\ UNCHANGED <<reader, op, env, chat>>

\* A polling loop that does not test its budget.
NewLoopUnbounded(j) ==
    /\ pc[j] = "b_loop"
    /\ LET n == loc[j].poll_count + 1
       IN  /\ loc' = [loc EXCEPT ![j].poll_count = n]
           /\ Write(j, [message |-> Msg("polling", n, loc[j].max_polls),
                        progress |-> PollProgress(n, loc[j].max_polls)], FALSE)
           /\ Goto(j, "b_get")
    /\ UNCHANGED <<reader, op, env, chat>>

\* app.py:545-547 and 736: the head of the polling loop.
new_loop(j) ==
    /\ pc[j] = "b_loop"
    /\ IF loc[j].poll_count < loc[j].max_polls
       THEN LET n == loc[j].poll_count + 1
            IN  /\ loc' = [loc EXCEPT ![j].poll_count = n]
                /\ Write(j, [message |-> Msg("polling", n, loc[j].max_polls),
                             progress |-> PollProgress(n, loc[j].max_polls)], FALSE)
                /\ Goto(j, "b_get")
       ELSE /\ loc' = [loc EXCEPT ![j].res = TimedOut(loc[j].poll_count)]
            /\ Goto(j, "b_ret")
            /\ UNCHANGED <<jobs, own, hist, shared, snaps>>
    /\ UNCHANGED <<reader, op, env, chat>>

\* The status a result response reports; 0 and 3 are in progress, 2 failed,
\* 4 complete, and a server may send any other value.
Statuses == {0, 2, 3, 4, 5}

\* The taskEstimateTime (ms) of a result response: <<n>> for the number n
\* (0 also when the response holds none), <<>> for a value that is no number.
PollEstimates == {<<>>, <<0>>, <<90000>>}

\* app.py:549-629: one result request.  A response that passes the envelope
\* check has its status logged.
new_poll(j) ==
    /\ pc[j] = "b_get"
    /\ \/ \E h \in BOOLEAN : GiveUp(j, Sent(j), h, "b_ret")
       \/ \E h \in BOOLEAN : Reject(j, Sent(j), h, "b_ret")
       \/ \E st \in Statuses : \E e \in PollEstimates :
            /\ st \in {2, 4} \/ loc[j].busy < env.busyCap
            /\ st \in {2, 4} => e = <<0>>
            /\ loc' = [Sent(j) EXCEPT ![j].status = st, ![j].est = e,
                          ![j].busy = IF st \in {2, 4} THEN @ ELSE @ + 1]
            /\ Write(j, [log_tail |-> <<Note("poll status")>>], FALSE)
            /\ Goto(j, "b_status")
    /\ UNCHANGED <<reader, op, env, chat>>

\* The text Variant B returns with success (app.py:714-715): the text found,
\* stripped, which is empty when the text found was blank.
Transcripts == {"words", ""}

\* app.py:632-734: the status decides.  On 4 the transcript is extracted:
\* from the lattice (logged, app.py:677), from the flatter fields, or not at
\* all; a lattice segment that does not parse is logged first (app.py:673).
new_status(j) ==
    /\ pc[j] = "b_status"
    /\ CASE loc[j].status = 4 ->
              \E x \in {"lattice", "segment_error", "flat", "nothing"} :
                CASE x = "lattice" ->
                       /\ Write(j, [log_tail |-> <<Note("words")>>], FALSE)
                       /\ \E text \in Transcripts :
                            loc' = [loc EXCEPT ![j].res = Res(TRUE, text, FALSE)]
                       /\ Goto(j, "b_ret")
                  [] x = "segment_error" ->
                       /\ Write(j, [log_tail |-> <<Note("segment error")>>], FALSE)
                       /\ Goto(j, "b_flat")
                       /\ UNCHANGED loc
                  [] x = "flat" ->
                       /\ \E text \in Transcripts :
                            loc' = [loc EXCEPT ![j].res = Res(TRUE, text, FALSE)]
                       /\ Goto(j, "b_ret")
                       /\ UNCHANGED <<jobs, own, hist, shared, snaps>>
                  [] OTHER -> \E h \in BOOLEAN : GiveUp(j, loc, h, "b_ret")
         [] loc[j].status = 2 -> \E h \in BOOLEAN : Reject(j, loc, h, "b_ret")
         [] OTHER ->
              \* in progress (app.py:724-734): the estimate is compared with
              \* 0, which raises when it is no number (caught at app.py:740);
              \* else the thread sleeps.  The status is not read again.
              IF loc[j].est = <<>>
              THEN \E h \in BOOLEAN : GiveUp(j, [loc EXCEPT ![j].est = <<0>>], h, "b_ret")
              ELSE /\ Goto(j, "b_loop")
                   /\ loc' = [loc EXCEPT ![j].status = 3, ![j].est = <<0>>]
                   /\ UNCHANGED <<jobs, own, hist, shared, snaps>>
    /\ UNCHANGED <<reader, op, env, chat>>

\* app.py:675-717, after a lattice segment failed to parse: words of other
\* segments (logged), the flatter fields, or nothing.
new_flat(j) ==
    /\ pc[j] = "b_flat"
    /\ \E x \in {"lattice", "flat", "nothing"} :
         CASE x = "lattice" ->
                /\ Write(j, [log_tail |-> <<Note("words")>>], FALSE)
                /\ \E text \in Transcripts :
                     loc' = [loc EXCEPT ![j].res = Res(TRUE, text, FALSE)]
                /\ Goto(j, "b_ret")
           [] x = "flat" ->
                /\ \E text \in Transcripts :
                     loc' = [loc EXCEPT ![j].res = Res(TRUE, text, FALSE)]
                /\ Goto(j, "b_ret")
                /\ UNCHANGED <<jobs, own, hist, shared, snaps>>
           [] OTHER -> \E h \in BOOLEAN : GiveUp(j, loc, h, "b_ret")
    /\ UNCHANGED <<reader, op, env, chat>>

\* -------------------------------------------- Variant A (legacy protocol)
OldMaxPolls == 120

\* _xunfei_transcribe, app.py:750-762.
old_begin(j) ==
    /\ pc[j] = "x_begin"
    /\ \E o \in {"ok", "no_requests"} :
         IF o = "no_requests"
         THEN GiveUp(j, loc, FALSE, "a_result")
         ELSE /\ Write(j, [message |-> Msg("upload", 0, 0), progress |-> 20], FALSE)
              /\ loc' = [loc EXCEPT ![j].poll_count = 0, ![j].busy = 0, ![j].status = 3,
                                    ![j].max_polls = OldMaxPolls, ![j].sent = 0]
              /\ Goto(j, "x_log1")
    /\ UNCHANGED <<reader, op, env, chat>>

\* app.py:763-776; stat() may raise, which is caught at app.py:951.
old_log_sig(j) ==
    /\ pc[j] = "x_log1"
    /\ \/ GiveUp(j, loc, FALSE, "a_result")
       \/ /\ Write(j, [log_tail |-> <<Note("signature")>>], FALSE)
          /\ Goto(j, "x_log2")
          /\ UNCHANGED loc
    /\ UNCHANGED <<reader, op, env, chat>>

\* app.py:778-785; reading the file may raise.
old_log_url(j) ==
    /\ pc[j] = "x_log2"
    /\ \/ GiveUp(j, loc, FALSE, "a_result")
       \/ /\ Write(j, [log_tail |-> <<Note("upload url")>>], FALSE)
          /\ Goto(j, "x_post")
          /\ UNCHANGED loc
    /\ UNCHANGED <<reader, op, env, chat>>

\* app.py:787-801: the upload; log_lines is stored in the registry and kept
\* by the function, which appends to it later.
old_upload(j) ==
    /\ pc[j] = "x_post"
    /\ \/ GiveUp(j, Did(j, "remote"), FALSE, "a_result")
       \/ \E u \in Uploads \ {"bad_shape"} :
            LET log_lines == <<Note("upload url"), Note("http status"),
                               Note("headers"), Note("body")>>
            IN  /\ loc' = [Did(j, "remote") EXCEPT ![j].order = <<u>>,
                              ![j].log_tail = log_lines]
                /\ Write(j, [log_tail |-> log_lines], TRUE)
                /\ Goto(j, "x_check")
    /\ UNCHANGED <<reader, op, env, chat>>

\* log_lines.append(x) followed by _set_job(job_id, log_tail=log_lines): the
\* append already changes the list the registry holds, and the write stores
\* the same list again.
AppendAndWrite(j, x) ==
    LET grown == Append(loc[j].log_tail, x)
    IN  /\ loc' = [loc EXCEPT ![j].log_tail = grown]
        /\ Write(j, [log_tail |-> grown], TRUE)
        /\ reader' = IF Watched(j) /\ reader.live
                     THEN [reader EXCEPT !.resp = Merged(@, [log_tail |-> grown])]
                     ELSE reader

\* app.py:803-813: status code and JSON parse, then the parsed response is
\* logged.
old_check(j) ==
    /\ pc[j] = "x_check"
    /\ IF loc[j].order[1] \in {"http_error", "not_json"}
       THEN GiveUp(j, [loc EXCEPT ![j].order = <<>>], FALSE, "a_result") /\ UNCHANGED reader
       ELSE AppendAndWrite(j, Note("parsed")) /\ Goto(j, "x_code")
    /\ UNCHANGED <<op, env, chat>>

\* app.py:815-828: the envelope code and the order id.
old_code(j) ==
    /\ pc[j] = "x_code"
    /\ CASE loc[j].order[1] = "rejected" ->
              AppendAndWrite(j, Note("error")) /\ Goto(j, "x_reject")
         [] loc[j].order[1] = "no_order" ->
              GiveUp(j, [loc EXCEPT ![j].order = <<>>], FALSE, "a_result") /\ UNCHANGED reader
         [] OTHER ->
              /\ Write(j, [message |-> Msg("waiting", 0, 0), progress |-> 50], FALSE)
              /\ Goto(j, "x_loop")
              /\ loc' = [loc EXCEPT ![j].order = <<>>]
              /\ UNCHANGED reader
    /\ UNCHANGED <<op, env, chat>>

\* app.py:821.
old_reject(j) ==
    /\ pc[j] = "x_reject"
    /\ GiveUp(j, [loc EXCEPT ![j].order = <<>>], FALSE, "a_result")
    /\ UNCHANGED <<reader, op, env, chat>>

\* app.py:834-836 and 947: the head of the polling loop.
old_loop(j) ==
    /\ pc[j] = "x_loop"
    /\ IF loc[j].status = 3 /\ loc[j].poll_count < loc[j].max_polls
       THEN LET n == loc[j].poll_count + 1
            IN  /\ loc' = [loc EXCEPT ![j].poll_count = n]
                /\ Write(j, [message |-> Msg("polling", n, loc[j].max_polls),
                             progress |-> PollProgress(n, loc[j].max_polls)], FALSE)
                /\ Goto(j, "x_get")
       ELSE /\ loc' = [loc EXCEPT ![j].res = TimedOut(loc[j].poll_count)]
            /\ Goto(j, "a_result")
            /\ UNCHANGED <<jobs, own, hist, shared, snaps>>
    /\ UNCHANGED <<reader, op, env, chat>>

\* app.py:838-945: one result request.  A response without a status counts
\* as status 3; on status 4 the transcript is extracted, and a response
\* that holds none is logged in full before the failure is returned.
old_poll(j) ==
    /\ pc[j] = "x_get"
    /\ \/ GiveUp(j, Sent(j), FALSE, "a_result")
       \/ \E st \in Statuses :
            /\ st # 3 \/ loc[j].busy < env.busyCap
            /\ LET l == [Sent(j) EXCEPT ![j].status = st,
                            ![j].busy = IF st = 3 THEN @ + 1 ELSE @]
               IN  IF st # 4
                   THEN /\ loc' = l
                        /\ Goto(j, "x_loop")
                        /\ UNCHANGED <<jobs, own, hist, shared, snaps>>
                   ELSE \E found \in BOOLEAN :
                          IF found
                          THEN /\ loc' = [l EXCEPT ![j].res = Res(TRUE, "words", FALSE)]
                               /\ Goto(j, "a_result")
                               /\ UNCHANGED <<jobs, own, hist, shared, snaps>>
                          ELSE /\ loc' = [l EXCEPT ![j].res = Fail(FALSE)]
                               /\ Write(j, [log_tail |-> <<Note("full response")>>], FALSE)
                               /\ Goto(j, "a_result")
    /\ UNCHANGED <<reader, op, env, chat>>

\* ------------------------------------------------- status query handler
ReadOrder == <<"status", "message", "progress", "text", "log_tail", "transcribe_duration">>

NextField(f) ==
    LET i == CHOOSE x \in 1..Len(ReadOrder) : ReadOrder[x] = f
    IN  IF i = Len(ReadOrder) THEN "respond" ELSE ReadOrder[i + 1]

\* What j.get(f) or j.get(f, default) gives on the dict d (app.py:1183-1188).
FieldView(d, f) ==
    CASE f = "text" -> DictGetOr(d, f, "")
      [] f = "log_tail" -> DictGetOr(d, f, <<>>)
      [] OTHER -> DictGet(d, f)

\* job(), app.py:1177-1179: the get, and 404 for an unknown id.
job_get ==
    /\ reader.pc = "idle"
    /\ \E id \in JobIds :
         LET j == _get_job(jobs, id)
         IN  IF j = None
             THEN /\ reader' = [ReaderIdle EXCEPT !.resp = [error |-> "no such job"]]
                  /\ UNCHANGED snaps
             ELSE /\ reader' = [pc |-> ReadOrder[1], j |-> j, got |-> jobs[j],
                                resp |-> EmptyDict, live |-> FALSE]
                  /\ snaps' = {jobs[j]}
    /\ UNCHANGED <<jobs, shared, pc, loc, own, hist, op, env, chat>>

\* job(), app.py:1181-1189: one field is read through the reference.  The
\* list read under log_tail is the registry's list object itself.
job_read ==
    /\ reader.pc \notin {"idle", "respond"}
    /\ LET f == reader.pc
           d == jobs[reader.j]
       IN  reader' = [reader EXCEPT !.pc = NextField(f),
                         !.resp = Merged(@, (f :> FieldView(d, f))),
                         !.live = IF f = "log_tail"
                                  THEN shared[reader.j] /\ f \in DOMAIN d ELSE @]
    /\ UNCHANGED <<jobs, shared, pc, loc, own, hist, snaps, op, env, chat>>

\* job(), app.py:1190: the response is serialised and sent.
job_respond ==
    /\ reader.pc = "respond"
    /\ reader' = ReaderIdle
    /\ snaps' = {}
    /\ UNCHANGED <<jobs, shared, pc, loc, own, hist, op, env, chat>>

\* ------------------------------------------------ model fallback chain
\* An exception, by what the function reads of it: type, the number that
\* follows "HTTPError:" in str(e) (Absent without one), the phrases found in
\* the lowered str(e), and whether str(e) is longer than 300 characters.
Exc(type, code, words, long) ==
    [type |-> type, code |-> code, words |-> words, long |-> long]

RetryCodes == {402, 403, 404, 429, 500, 502, 503, 504}

Keywords ==
    {"insufficient", "quota", "rate", "limit", "exceeded", "payment", "billing",
     "credits", "too many requests", "no endpoints found", "model not found",
     "not found", "timeout", "timed out", "empty content", "inner error",
     "filtered", "refused"}

\* should_try_next_model(err), openrouter_fallback.py:26-58
should_try_next_model(err) ==
    \/ err.code \in RetryCodes
    \/ \E k \in Keywords : k \in err.words

\* What call_fn may return.  shape: "object" is a dict whose choices list is
\* non-empty and whose first choice has a dict (or no) message; "message_none"
\* is such a dict whose first choice has message None; the other shapes are
\* a value that is not a dict, a dict without choices, a dict with an empty
\* choices list.  error: the first choice holds a truthy error; content: the
\* first choice's message content; big: the printed response is long.
Resp(shape, error, content, big) ==
    [shape |-> shape, error |-> error, content |-> content, big |-> big]

Responses ==
    {Resp("object", FALSE, "text", FALSE),
     Resp("object", FALSE, "", FALSE),
     Resp("object", FALSE, "", TRUE),
     Resp("object", TRUE, "text", FALSE),
     Resp("object", TRUE, "", TRUE),
     Resp("message_none", FALSE, "", FALSE),
     Resp("not_object", FALSE, "", FALSE),
     Resp("no_choices", FALSE, "", FALSE),
     Resp("empty_choices", FALSE, "", FALSE)}

\* What call_fn may raise: HTTP 429; HTTP 400 with a long body; HTTP 401 whose
\* body speaks of a quota; a long time-out message; an error of another kind.
ProviderErrors ==
    {Exc("RuntimeError", 429, {}, FALSE),
     Exc("RuntimeError", 400, {"bad request"}, TRUE),
     Exc("RuntimeError", 401, {"quota"}, FALSE),
     Exc("TimeoutError", Absent, {"timed out"}, TRUE),
     Exc("ValueError", Absent, {}, FALSE)}

Outcomes ==
    {[kind |-> "raise", err |-> e] : e \in ProviderErrors}
        \cup {[kind |-> "return", resp |-> r] : r \in Responses}

\* The check of the response, openrouter_fallback.py:80-88: <<>> when nothing
\* is raised, else the exception raised.
Validate(resp) ==
    IF resp.shape \in {"object", "message_none"}
    THEN IF resp.error
         THEN <<Exc("RuntimeError", Absent, {"inner error"}, resp.big)>>
         ELSE IF resp.shape = "message_none"
              THEN <<Exc("AttributeError", Absent, {}, FALSE)>>
              ELSE IF resp.content = ""
                   THEN <<Exc("RuntimeError", Absent,
                              {"empty content", "filtered", "refused"}, resp.big)>>
                   ELSE <<>>
    ELSE <<>>

\* The exception the try block ends with for an outcome of call_fn, if any.
Failure(out) == IF out.kind = "raise" THEN <<out.err>> ELSE Validate(out.resp)

\* openrouter_fallback.py:93-95: str(e), cut to 300 characters and "..."
\* when longer.
Shown(e) == [of |-> e, cut |-> e.long]

Models == {"A", "B", "C"}
MaxCands == 3
CandLists == UNION {[1..n -> Models] : n \in 0..MaxCands}

\* The loop keeps calling after a reply it accepted.
AttemptGoesOn(c, out) ==
    LET model == c.cands[c.i + 1]
        called == [c EXCEPT !.i = @ + 1, !.calls = Append(@, model), !.outs = Append(@, out)]
    IN  IF Failure(out) = <<>>
        THEN [called EXCEPT !.result = <<[kind |-> "return", model |-> model,
                                          resp |-> out.resp]>>,
                            !.pc = IF called.i = Len(c.cands) THEN "done" ELSE "loop"]
        ELSE [called EXCEPT !.last_err = Failure(out),
                            !.errors = Append(@, <<model, Shown(Failure(out)[1])>>)]

\* The loop goes to the next candidate after any failure.
AttemptSkipsOver(c, out) ==
    LET model == c.cands[c.i + 1]
        called == [c EXCEPT !.i = @ + 1, !.calls = Append(@, model), !.outs = Append(@, out)]
    IN  IF Failure(out) = <<>>
        THEN [called EXCEPT !.pc = "done",
                            !.result = <<[kind |-> "return", model |-> model,
                                          resp |-> out.resp]>>]
        ELSE [called EXCEPT !.last_err = Failure(out),
                            !.errors = Append(@, <<model, Shown(Failure(out)[1])>>)]

\* The loop calls a candidate a second time after its retryable failure.
AttemptTwice(c, out) ==
    LET model == c.cands[c.i + 1]
        again == Len(c.calls) = 2 * c.i
        called == [c EXCEPT !.i = IF again /\ Failure(out) # <<>> THEN @ ELSE @ + 1,
                            !.calls = Append(@, model), !.outs = Append(@, out)]
    IN  IF Failure(out) = <<>>
        THEN [called EXCEPT !.pc = "done",
                            !.result = <<[kind |-> "return", model |-> model,
                                          resp |-> out.resp]>>]
        ELSE LET e == Failure(out)[1]
                 failed == [called EXCEPT !.last_err = <<e>>,
                                          !.errors = Append(@, <<model, Shown(e)>>)]
             IN  IF should_try_next_model(e)
                 THEN failed
                 ELSE [failed EXCEPT !.pc = "done",
                                     !.result = <<[kind |-> "raise", err |-> e]>>]

\* One turn of the loop, openrouter_fallback.py:75-101, for the outcome out
\* of call_fn on the next candidate.
Attempt(c, out) ==
    LET model == c.cands[c.i + 1]
        called == [c EXCEPT !.i = @ + 1, !.calls = Append(@, model), !.outs = Append(@, out)]
    IN  IF Failure(out) = <<>>
        THEN [called EXCEPT !.pc = "done",
                            !.result = <<[kind |-> "return", model |-> model,
                                          resp |-> out.resp]>>]
        ELSE LET e == Failure(out)[1]
                 failed == [called EXCEPT !.last_err = <<e>>,
                                          !.errors = Append(@, <<model, Shown(e)>>)]
             IN  IF should_try_next_model(e)
                 THEN failed
                 ELSE [failed EXCEPT !.pc = "done",
                                     !.result = <<[kind |-> "raise", err |-> e]>>]

\* The RuntimeError raised at openrouter_fallback.py:105 and :106.
AllFailed(errors) == [type |-> "RuntimeError", text |-> "all_failed", parts |-> errors]
NoCandidates == [type |-> "RuntimeError", text |-> "no_candidates", parts |-> <<>>]

\* After the loop the last exception is raised again.
ExhaustedRaisesLast(c) ==
    [c EXCEPT !.pc = "done",
              !.result = <<[kind |-> "raise",
                            err |-> IF c.last_err # <<>> THEN c.last_err[1] ELSE NoCandidates]>>]

\* After the loop the aggregate is raised whatever happened.
ExhaustedAggregate(c) ==
    [c EXCEPT !.pc = "done", !.result = <<[kind |-> "raise", err |-> AllFailed(c.errors)]>>]

\* After the loop, openrouter_fallback.py:102-106.
Exhausted(c) ==
    [c EXCEPT !.pc = "done",
              !.result = <<[kind |-> "raise",
                            err |-> IF c.last_err # <<>>
                                    THEN AllFailed(c.errors) ELSE NoCandidates]>>]

\* chat_with_model_fallback is called with a list of candidates.
chat_call ==
    /\ chat.pc = "idle"
    /\ \E cs \in CandLists : chat' = [ChatIdle EXCEPT !.pc = "loop", !.cands = cs]
    /\ UNCHANGED <<jobs, shared, pc, loc, own, hist, reader, snaps, op, env>>

chat_attempt ==
    /\ chat.pc = "loop"
    /\ chat.i < Len(chat.cands)
    /\ \E out \in Outcomes : chat' = Attempt(chat, out)
    /\ UNCHANGED <<jobs, shared, pc, loc, own, hist, reader, snaps, op, env>>

chat_exhausted ==
    /\ chat.pc = "loop"
    /\ chat.i = Len(chat.cands)
    /\ chat' = Exhausted(chat)
    /\ UNCHANGED <<jobs, shared, pc, loc, own, hist, reader, snaps, op, env>>

NextChat == chat_call \/ chat_attempt \/ chat_exhausted

\* ------------------------------------------ failure classifier on its own
\* Phrases a failure message may hold, with the shorter phrases each one
\* contains as a substring.
Phrases ==
    {"quota", "rate limit", "rate", "limit", "timeout", "filtered", "refused",
     "not found", "model not found", "billing", "bad request"}

Inside(p) ==
    CASE p = "rate limit" -> {"rate", "limit"}
      [] p = "model not found" -> {"not found"}
      [] OTHER -> {}

\* The numbers that may follow "HTTPError:" in a message.
StatusCodes == {Absent, 400, 401, 402, 403, 404, 429, 500, 501, 502, 503, 504, 505, 599}

\* Messages: a status code or none, and up to two phrases with all they contain.
ClassifyInputs ==
    {Exc("RuntimeError", c, ws \cup UNION {Inside(p) : p \in ws}, FALSE) :
        c \in StatusCodes, ws \in {x \in SUBSET Phrases : Cardinality(x) <= 2}}

\* should_try_next_model called on any of the messages.
classify ==
    /\ \E e \in ClassifyInputs :
         op' = [name |-> "classify", id |-> None, kw |-> e, ret |-> should_try_next_model(e)]
    /\ UNCHANGED <<jobs, shared, pc, loc, own, hist, reader, snaps, env, chat>>

NextClassify == classify

\* ------------------------------------------------ request signatures
\* hashlib and base64 as functions that lose nothing: a digest or an
\* encoding is the tagged value of what went in.  Strings are sequences of
\* ASCII characters, which utf-8 encodes byte for byte.
Md5Hex(data) == <<"md5", data>>
HmacSha1(key, msg) == <<"hmac-sha1", key, msg>>
B64(data) == <<"b64", data>>

\* A signature that leaves the timestamp out.
SignaNoStamp(appid, secret_key, ts) == B64(HmacSha1(secret_key, Md5Hex(appid)))

\* _xunfei_get_signa(appid, secret_key, ts), app.py:341-352.
_xunfei_get_signa(appid, secret_key, ts) ==
    B64(HmacSha1(secret_key, Md5Hex(appid \o ts)))

\* Inputs of the signature: appIds and timestamps of which two pairs give
\* the same concatenation, and secrets.
AppIds == {<<"1">>, <<"1", "2">>, <<"a">>}
Stamps == {<<"2">>, <<"2", "2">>, <<"3">>}
Secrets == {<<"k">>, <<"k", "k">>, <<"s">>}

\* _xunfei_get_signa called on any inputs; the call before it is kept.
signa_call ==
    /\ \E appid \in AppIds : \E secret_key \in Secrets : \E ts \in Stamps :
         op' = [name |-> "signa", id |-> None,
                kw |-> [appid |-> appid, secret_key |-> secret_key, ts |-> ts,
                        before |-> IF op.name = "signa"
                                   THEN <<[op.kw EXCEPT !.before = <<>>], op.ret>>
                                   ELSE <<>>],
                ret |-> _xunfei_get_signa(appid, secret_key, ts)]
    /\ UNCHANGED <<jobs, shared, pc, loc, own, hist, reader, snaps, env, chat>>

\* The characters of parameter names and values, in ascending code point
\* order, which is the order Python compares strings by.
Ascii ==
    <<" ", "%", "&", "-", ".", "/", "0", "1", "2", "3", "4", "5", "6", "7", "8", "9", "=",
      "A", "B", "C", "D", "E", "F", "G", "H", "I", "J", "K", "L", "M", "N", "O", "P", "Q",
      "R", "S", "T", "U", "V", "W", "X", "Y", "Z", "_",
      "a", "b", "c", "d", "e", "f", "g", "h", "i", "j", "k", "l", "m", "n", "o", "p", "q",
      "r", "s", "t", "u", "v", "w", "x", "y", "z", "~">>
Code(c) == CHOOSE i \in 1..Len(Ascii) : Ascii[i] = c

\* a < b on strings.
RECURSIVE StrLess(_, _)
StrLess(a, b) ==
    IF a = <<>> THEN b # <<>>
    ELSE IF b = <<>> THEN FALSE
         ELSE IF Head(a) = Head(b) THEN StrLess(Tail(a), Tail(b))
              ELSE Code(Head(a)) < Code(Head(b))

\* urllib.parse.quote(s, safe=''): letters, digits and _ . - ~ stay, every
\* other character becomes % and its two hexadecimal digits.
QuoteChar(c) ==
    CASE c = " " -> <<"%", "2", "0">>
      [] c = "%" -> <<"%", "2", "5">>
      [] c = "&" -> <<"%", "2", "6">>
      [] c = "/" -> <<"%", "2", "F">>
      [] c = "=" -> <<"%", "3", "D">>
      [] OTHER -> <<c>>
RECURSIVE Quote(_)
Quote(str) == IF str = <<>> THEN <<>> ELSE QuoteChar(Head(str)) \o Quote(Tail(str))

\* The pairs in the order they were inserted.
Unsorted(items) == items

\* sorted(params.items()): a dict is the sequence of its (key, value) pairs
\* in insertion order, its keys distinct.
RECURSIVE SortedItems(_)
SortedItems(items) ==
    IF items = <<>> THEN <<>>
    ELSE LET i == CHOOSE x \in 1..Len(items) :
                    \A y \in 1..Len(items) : x = y \/ StrLess(items[x][1], items[y][1])
         IN  <<items[i]>> \o SortedItems(SubSeq(items, 1, i - 1)
                                            \o SubSeq(items, i + 1, Len(items)))

KeySignature == <<"s", "i", "g", "n", "a", "t", "u", "r", "e">>

\* The pairs that are signed, in signing order.  strict is the test of
\* _xunfei_generate_signature, app.py:371 (not None and str(v).strip());
\* the code inside _xunfei_transcribe_new_api tests the value's truth
\* (app.py:456 and 574).
SignedItems(params, strict) ==
    SelectSeq(SortedItems(params),
              LAMBDA kv : /\ kv[1] # KeySignature
                          /\ IF strict THEN Strip(kv[2]) # <<>> ELSE kv[2] # <<>>)

\* '&'.join of the parts key=value, both percent-encoded (app.py:375-382).
RECURSIVE JoinParts(_)
JoinParts(items) ==
    IF items = <<>> THEN <<>>
    ELSE Quote(items[1][1]) \o <<"=">> \o Quote(items[1][2])
            \o (IF Len(items) = 1 THEN <<>> ELSE <<"&">> \o JoinParts(Tail(items)))

base_string(params, strict) == JoinParts(SignedItems(params, strict))

\* _xunfei_generate_signature(access_key_secret, params), app.py:355-392, and
\* the same steps inside _xunfei_transcribe_new_api, app.py:453-475.
_xunfei_generate_signature(access_key_secret, params, strict) ==
    B64(HmacSha1(access_key_secret, base_string(params, strict)))

\* Parameter names and values: a name in capitals, which sorts first, the
\* signature entry, values that are empty, blank or need encoding; the
\* secret of the account.
ParamKeys ==
    {<<"a", "p", "p", "I", "d">>, <<"a", "c", "c", "e", "s", "s", "K", "e", "y", "I", "d">>,
     <<"Z", "o", "n", "e">>, KeySignature}
ParamValues == {<<>>, <<" ">>, <<"a", "&", "b">>}
ApiSecret == <<"k">>
MaxParams == 3

\* dicts of up to MaxParams entries, in every insertion order.
ParamDicts ==
    UNION {{d \in [1..n -> ParamKeys \X ParamValues] :
               \A i, j \in 1..n : i # j => d[i][1] # d[j][1]} : n \in 0..MaxParams}

\* The signature is computed for any dict, by the function or in line.
sign_call ==
    /\ op.name = "init"
    /\ \E params \in ParamDicts : \E strict \in BOOLEAN :
         op' = [name |-> "sign", id |-> None,
                kw |-> [params |-> params, strict |-> strict,
                        signed |-> SignedItems(params, strict),
                        base |-> base_string(params, strict)],
                ret |-> _xunfei_generate_signature(ApiSecret, params, strict)]
    /\ UNCHANGED <<jobs, shared, pc, loc, own, hist, reader, snaps, env, chat>>

\* ------------------------------------------------ result extraction
\* JSON values of a result response: a missing key, a string (s), a list
\* (items), an object (d, a function from its keys to strings).
NoKey == [type |-> "absent", s |-> <<>>, items |-> <<>>, d |-> EmptyDict]
Str(chars) == [NoKey EXCEPT !.type = "str", !.s = chars]
List(items) == [NoKey EXCEPT !.type = "list", !.items = items]
Dict(fields) == [NoKey EXCEPT !.type = "dict", !.d = fields]

\* str(x), and json.dumps(x) of an object: a string is itself, the text of
\* a list or an object is its brackets (what stands between them is left
\* out; the text is never empty).
Repr(x) ==
    CASE x.type = "str" -> x.s
      [] x.type = "list" -> <<"[", "]">>
      [] OTHER -> <<"{", "}">>

\* a or b, on strings.
Or(a, b) == IF a # <<>> THEN a ELSE b

\* Variant A, app.py:889-895 (and 908-914, 926-932): the text of one item
\* of a list.
ItemText(item) ==
    IF item.type = "dict"
    THEN Or(DictGetOr(item.d, "oneBest", <<>>),
            Or(DictGetOr(item.d, "text", <<>>),
               Or(DictGetOr(item.d, "content", <<>>), Repr(item))))
    ELSE Repr(item)

\* '\n'.join(filter(None, texts))
RECURSIVE JoinLines(_)
JoinLines(texts) ==
    IF texts = <<>> THEN <<>>
    ELSE LET rest == JoinLines(Tail(texts))
         IN  IF Head(texts) = <<>> THEN rest
             ELSE IF rest = <<>> THEN Head(texts) ELSE Head(texts) \o <<"\n">> \o rest

ItemTexts(x) == JoinLines([i \in 1..Len(x.items) |-> ItemText(x.items[i])])

\* Variant A, app.py:881-935: what each of the four paths gives when it is
\* looked at, in the order of the code: orderInfo.result, content.result,
\* content.text, content.data.
OldPaths(r) ==
    <<CASE r.oi_result.type = "str" -> r.oi_result.s
        [] r.oi_result.type = "list" -> ItemTexts(r.oi_result)
        [] r.oi_result.type = "dict" -> Repr(r.oi_result)
        [] OTHER -> <<>>,
      CASE r.c_result.type = "str" -> r.c_result.s
        [] r.c_result.type = "list" -> ItemTexts(r.c_result)
        [] OTHER -> <<>>,
      IF r.c_text.type = "absent" THEN <<>> ELSE Repr(r.c_text),
      CASE r.c_data.type = "list" -> ItemTexts(r.c_data)
        [] r.c_data.type = "str" -> r.c_data.s
        [] OTHER -> <<>> >>

\* Variant A, app.py:873-943: the pair returned for a response of status 4.
\* A path is looked at while result_text is empty; the failure message
\* holds the first 500 characters of the response.
old_extract(r) ==
    LET t == OldPaths(r)
        result_text == Or(t[1], Or(t[2], Or(t[3], t[4])))
    IN  IF Strip(result_text) = <<>>
        THEN [ok |-> FALSE, text |-> <<>>, preview |-> <<r>>]
        ELSE [ok |-> TRUE, text |-> Strip(result_text), preview |-> <<>>]

\* The values a path may hold: nothing, strings (empty, blank, words that
\* name the path), lists (empty, of a string and an object), an object.
PathValues(p) ==
    {NoKey, Str(<<>>), Str(<<" ">>), Str(<<"w", p>>), List(<<>>),
     List(<<Str(<<"a", p>>), Dict([oneBest |-> <<"b">>])>>), Dict(EmptyDict)}

OldResponses ==
    [oi_result : PathValues("1"), c_result : PathValues("2"),
     c_text : PathValues("3"), c_data : PathValues("4")]

\* The extraction of Variant A applied to any complete response.
old_extract_call ==
    /\ op.name = "init"
    /\ \E r \in OldResponses :
         op' = [name |-> "old_extract", id |-> None,
                kw |-> [response |-> r, paths |-> OldPaths(r)],
                ret |-> old_extract(r)]
    /\ UNCHANGED <<jobs, shared, pc, loc, own, hist, reader, snaps, env, chat>>

\* A lattice segment: json says whether its json_1best is empty ("none"),
\* does not parse ("bad") or parses ("ok"); rt is then the list st.rt, each
\* item of it a ws list of cw lists of words (ok), or a value that is no
\* object, on which .get raises (not ok).
Seg(json, rt) == [json |-> json, rt |-> rt]
Rt(ok, ws) == [ok |-> ok, ws |-> ws]

\* The words of the cw lists of one ws list, in order, the empty ones left
\* out (app.py:665-671).
RECURSIVE WsWords(_)
WsWords(ws) ==
    IF ws = <<>> THEN <<>>
    ELSE SelectSeq(Head(ws), LAMBDA w : w # <<>>) \o WsWords(Tail(ws))

\* The words one segment adds to all_words: an exception inside the segment
\* (app.py:672-673) ends the segment and keeps what was added before it.
RECURSIVE RtWords(_)
RtWords(rt) ==
    IF rt = <<>> \/ ~Head(rt).ok THEN <<>> ELSE WsWords(Head(rt).ws) \o RtWords(Tail(rt))

\* all_words after the loop over the lattice, app.py:654-673.
RECURSIVE LatticeWords(_)
LatticeWords(lattice) ==
    IF lattice = <<>> THEN <<>>
    ELSE (IF Head(lattice).json = "ok" THEN RtWords(Head(lattice).rt) ELSE <<>>)
            \o LatticeWords(Tail(lattice))

\* x.get('text', x.get('content', default)) on an object.
TextOrContent(x, default) == DictGetOr(x.d, "text", DictGetOr(x.d, "content", default))

\* Variant B, app.py:640-712: the texts the extraction may take, in the
\* order of the code: the words of the lattice joined, the flat fields of
\* orderResult (an object, or a list of items), data.result, data.text.
NewPaths(r) ==
    <<IF r.order_result.type = "dict" THEN Join(LatticeWords(r.lattice)) ELSE <<>>,
      CASE r.order_result.type = "dict" -> TextOrContent(r.order_result, <<>>)
        [] r.order_result.type = "list" ->
             JoinLines([i \in 1..Len(r.order_result.items) |->
                          LET item == r.order_result.items[i]
                          IN  IF item.type = "dict" THEN TextOrContent(item, Repr(item))
                              ELSE Repr(item)])
        [] OTHER -> <<>>,
      CASE r.data_result.type = "str" -> r.data_result.s
        [] r.data_result.type = "dict" -> TextOrContent(r.data_result, <<>>)
        [] r.data_result.type = "list" ->
             JoinLines([i \in 1..Len(r.data_result.items) |->
                          LET item == r.data_result.items[i]
                          IN  IF item.type = "dict" THEN TextOrContent(item, Repr(item))
                              ELSE Repr(item)])
        [] OTHER -> <<>>,
      r.data_text.s>>

\* Variant B, app.py:632-717: the pair returned for a response of status 4.
\* data.text, when the key is there, replaces what data.result gave.
new_extract(r) ==
    LET t == NewPaths(r)
        from_order == Or(t[1], t[2])
        from_data == IF r.data_text.type = "absent" THEN t[3] ELSE t[4]
        result_text == Or(from_order, from_data)
    IN  IF result_text # <<>>
        THEN [ok |-> TRUE, text |-> Strip(result_text), preview |-> <<>>]
        ELSE [ok |-> FALSE, text |-> <<>>, preview |-> <<r>>]

\* Lattices: none, segments that are empty or do not parse, words spread
\* over segments, rt, ws and cw lists with an empty token among them, a
\* segment that fails half way, a single blank token.
Lattices ==
    {<<>>,
     <<Seg("none", <<>>), Seg("bad", <<>>)>>,
     <<Seg("ok", <<Rt(TRUE, << <<<<"a">>, <<>>>>, <<<<"b">>>> >>), Rt(TRUE, << <<<<"c">>>> >>)>>),
       Seg("bad", <<>>),
       Seg("ok", <<Rt(TRUE, << <<<<"d">>>> >>)>>)>>,
     <<Seg("ok", <<Rt(TRUE, << <<<<"a">>>> >>), Rt(FALSE, <<>>), Rt(TRUE, << <<<<"b">>>> >>)>>)>>,
     <<Seg("ok", <<Rt(TRUE, << <<<<" ">>>> >>)>>)>>}

\* Complete responses of Variant B.
NewResponses ==
    [lattice : Lattices,
     order_result : {NoKey, Str(<<"x">>), Dict(EmptyDict), Dict([text |-> <<"t">>]),
                     Dict([content |-> <<"c">>]),
                     List(<<Str(<<"l">>), Dict([content |-> <<"m">>])>>)},
     data_result : {NoKey, Str(<<"r">>), Dict([text |-> <<"s">>]), List(<<Str(<<>>)>>)},
     data_text : {NoKey, Str(<<>>), Str(<<" ">>), Str(<<"u">>)}]

\* The extraction of Variant B applied to any complete response.
new_extract_call ==
    /\ op.name = "init"
    /\ \E r \in NewResponses :
         op' = [name |-> "new_extract", id |-> None,
                kw |-> [response |-> r, paths |-> NewPaths(r),
                        words |-> IF r.order_result.type = "dict"
                                  THEN LatticeWords(r.lattice) ELSE <<>>],
                ret |-> new_extract(r)]
    /\ UNCHANGED <<jobs, shared, pc, loc, own, hist, reader, snaps, env, chat>>

\* ------------------------------------------------ budget and backoff
\* Estimates (ms) around the points where the budget and the delay change.
EstimateSamples ==
    {0 - 1500, 0 - 1, 0, 1, 999, 1000, 29999, 30000, 30001, 59999, 60000, 60001,
     199999, 200000, 201000, 204999, 205000, 206666, 206667, 240000, 600000}

\* The budget and the delay computed for any estimate; the call before it
\* is kept.
estimate_call ==
    /\ \E e \in EstimateSamples :
         op' = [name |-> "estimate", id |-> None,
                kw |-> [estimate |-> e,
                        before |-> IF op.name = "estimate"
                                   THEN <<[estimate |-> op.kw.estimate, ret |-> op.ret]>>
                                   ELSE <<>>],
                ret |-> [max_polls |-> NewMaxPolls(e), wait_time |-> WaitTime(e)]]
    /\ UNCHANGED <<jobs, shared, pc, loc, own, hist, reader, snaps, env, chat>>

\* ------------------------------------------------ model candidates
\* JSON null.
Null == [NoKey EXCEPT !.type = "null"]

QuoteMarks == {"'", "\""}

\* re.findall(r"""['"]([^'"]+)['"]""", text): from left to right, a quote
\* mark, the longest run of one or more characters that are no quote mark,
\* and a quote mark; the runs are the items, and the search goes on after
\* the closing mark.
RECURSIVE FindAll(_)
FindAll(text) ==
    IF text = <<>> THEN <<>>
    ELSE IF Head(text) \notin QuoteMarks THEN FindAll(Tail(text))
    ELSE LET rest == Tail(text)
             closes == {k \in 1..Len(rest) : rest[k] \in QuoteMarks}
         IN  IF closes = {} THEN <<>>
             ELSE LET k == CHOOSE c \in closes : \A d \in closes : c <= d
                  IN  IF k = 1 THEN FindAll(rest)
                      ELSE <<SubSeq(rest, 1, k - 1)>> \o FindAll(SubSeq(rest, k + 1, Len(rest)))

\* openrouter_fallback.py:19-22 and 124-127: the stripped strings that are
\* not empty, each once, in the order of their first occurrence.
RECURSIVE Collect(_, _)
Collect(models, strs) ==
    IF strs = <<>> THEN models
    ELSE LET m == Strip(Head(strs))
         IN  Collect(IF m # <<>> /\ \A i \in 1..Len(models) : models[i] # m
                     THEN Append(models, m) ELSE models,
                     Tail(strs))

\* openrouter_fallback.py:8-23; a file that does not exist is <<>>, one
\* that exists is <<text>>.
load_models_from_js(js_file) ==
    IF js_file = <<>> THEN <<>> ELSE Collect(<<>>, FindAll(js_file[1]))

\* str(item) if item is not None else ""
ItemStr(item) == IF item.type = "null" THEN <<>> ELSE Repr(item)

\* The strings a source holds before they are stripped: the items of the
\* configured list (nothing when the value is no list), the quoted strings
\* of the file, the configured string (cfg.get(...) or "").
ListStrs(v) == IF v.type = "list" THEN [i \in 1..Len(v.items) |-> ItemStr(v.items[i])] ELSE <<>>
FileStrs(js_file) == IF js_file = <<>> THEN <<>> ELSE FindAll(js_file[1])
SingleStrs(v) == IF v.type = "str" THEN <<v.s>> ELSE <<>>

\* Candidates gathered from every source.
MergedCandidates(cfg, js_file) ==
    Collect(<<>>, ListStrs(cfg.openrouter_models) \o FileStrs(js_file)
                      \o SingleStrs(cfg.openrouter_model))

\* openrouter_fallback.py:109-138.
build_model_candidates(cfg, js_file) ==
    LET listed == Collect(<<>>, ListStrs(cfg.openrouter_models))
        parsed == IF listed = <<>> THEN load_models_from_js(js_file) ELSE listed
        single == IF cfg.openrouter_model.type = "str"
                  THEN Strip(cfg.openrouter_model.s) ELSE <<>>
    IN  IF parsed # <<>> THEN parsed
        ELSE IF single # <<>> THEN <<single>> ELSE <<>>

\* Items of a configured list.
ListItems == {Null, Str(<<"a">>), Str(<<" ", "a">>), Str(<<"b">>), Str(<<" ">>)}

\* cfg["openrouter_models"]: missing, a string, or a list of at most
\* MaxCands items.
ConfiguredModels ==
    {NoKey, Str(<<"a">>)} \cup {List(l) : l \in UNION {[1..n -> ListItems] : n \in 0..MaxCands}}

\* cfg["openrouter_model"]: missing, null or a string.
ConfiguredModel ==
    {NoKey, Null, Str(<<>>), Str(<<" ">>), Str(<<"c", " ">>), Str(<<"a">>)}

\* openrouter-models.js: missing, or its text.
JsFiles ==
    {<<>>, <<<<>>>>,
     <<<<"[", "\"", "b", "\"", ",", "'", "a", "'", "]">>>>,
     <<<<"\"", "a", "\"", " ", "\"", "a", " ", "\"">>>>,
     <<<<"'", " ", "'", "\"", "\"">>>>,
     <<<<"\"", "a", "\"", "b", "\"", "c", "\"">>>>,
     <<<<"'", "a", "\"", " ", "b", "'">>>>}

candidates_call ==
    /\ op.name = "init"
    /\ \E models \in ConfiguredModels, model \in ConfiguredModel, js_file \in JsFiles :
         LET cfg == [openrouter_models |-> models, openrouter_model |-> model]
         IN  op' = [name |-> "candidates", id |-> None,
                    kw |-> [cfg |-> cfg, js_file |-> js_file],
                    ret |-> build_model_candidates(cfg, js_file)]
    /\ UNCHANGED <<jobs, shared, pc, loc, own, hist, reader, snaps, env, chat>>

\* ------------------------------------------------ _run_stream on its own
\* Caps passed as max_capture_lines, and the most lines a process prints.
Caps == {1, 2, 3}
MaxRunLines == 5

\* The locals of one _run_stream call: the cap, the output the process
\* prints, whether a callback was passed, the lines read, the capture
\* buffer, the lines the callback was called with, and how many of these
\* calls raised; exit is the code the process will exit with.
RunLocals(cap, sc, cb, exit) ==
    [cap |-> cap, script |-> sc, on_line |-> cb, k |-> 0, out_lines |-> <<>>,
     called |-> <<>>, raised |-> 0, exit |-> exit]

\* _run_stream, app.py:183-197: the process is started.
run_stream_call ==
    /\ op.name \in {"init", "run_stream_return"}
    /\ \E cap \in Caps : \E sc \in 1..Len(Scripts) : \E cb \in BOOLEAN : \E exit \in {0, 1} :
         op' = [name |-> "run_stream", id |-> None, kw |-> RunLocals(cap, sc, cb, exit),
                ret |-> <<>>]
    /\ UNCHANGED <<jobs, shared, pc, loc, own, hist, reader, snaps, env, chat>>

\* A loop whose turn ends when the callback raises.
RunStreamLineSkipping ==
    /\ op.name = "run_stream"
    /\ op.kw.k < MaxRunLines
    /\ LET line == ScriptLine(op.kw.script, op.kw.k + 1)
       IN  \E raises \in BOOLEAN :
             /\ raises => op.kw.on_line
             /\ op' = [op EXCEPT
                         !.kw.k = @ + 1,
                         !.kw.called = IF op.kw.on_line THEN Append(@, line) ELSE @,
                         !.kw.raised = IF raises THEN @ + 1 ELSE @,
                         !.kw.out_lines = IF raises THEN @ ELSE Captured(@, line, op.kw.cap)]
    /\ UNCHANGED <<jobs, shared, pc, loc, own, hist, reader, snaps, env, chat>>

\* _run_stream, app.py:198-206: one turn of the loop.  The callback, when
\* there is one, is called with the line, and what it raises is dropped.
run_stream_line ==
    /\ op.name = "run_stream"
    /\ op.kw.k < MaxRunLines
    /\ LET line == ScriptLine(op.kw.script, op.kw.k + 1)
       IN  \E raises \in BOOLEAN :
             /\ raises => op.kw.on_line
             /\ op' = [op EXCEPT
                         !.kw.k = @ + 1,
                         !.kw.called = IF op.kw.on_line THEN Append(@, line) ELSE @,
                         !.kw.raised = IF raises THEN @ + 1 ELSE @,
                         !.kw.out_lines = Captured(@, line, op.kw.cap)]
    /\ UNCHANGED <<jobs, shared, pc, loc, own, hist, reader, snaps, env, chat>>

\* _run_stream, app.py:207-208: the output has ended.
run_stream_return ==
    /\ op.name = "run_stream"
    /\ LET rc == op.kw.exit
       IN  op' = [op EXCEPT !.name = "run_stream_return",
                            !.ret = <<rc, Join(op.kw.out_lines)>>]
    /\ UNCHANGED <<jobs, shared, pc, loc, own, hist, reader, snaps, env, chat>>

NextRunStream == run_stream_call \/ run_stream_line \/ run_stream_return

\* ------------------------------------------------ JobStore on its own
\* Arguments of upsert calls: field sets as the handler and the worker pass.
StoreInputs ==
    {[status |-> "queued", message |-> Msg("queued", 0, 0)],
     [status |-> "running"],
     [message |-> Msg("api", 0, 0), progress |-> 30],
     [log_tail |-> <<LnA>>],
     [status |-> "done", text |-> "words"]}

\* _set_job called with any id and any of the field sets.
store_upsert ==
    /\ \E id \in JobIds : \E kw \in StoreInputs :
         /\ jobs' = _set_job(jobs, id, kw)
         /\ op' = [name |-> "upsert", id |-> id, kw |-> kw, ret |-> None]
    /\ UNCHANGED <<shared, pc, loc, own, hist, reader, snaps, env, chat>>

\* _get_job called with any id.
store_get ==
    /\ \E id \in JobIds :
         op' = [name |-> "get", id |-> id, kw |-> EmptyDict, ret |-> _get_job(jobs, id)]
    /\ UNCHANGED <<jobs, shared, pc, loc, own, hist, reader, snaps, env, chat>>

NextStore == store_upsert \/ store_get

\* --------------------------------------------------------- specifications
\* Steps of a worker thread: common to both modes, of the local pipeline,
\* and of the remote one.
CommonStep(j) == worker_begin(j) \/ worker_copy(j) \/ worker_except(j) \/ worker_return(j)

LocalStep(j) ==
    \/ local_model(j) \/ local_ffmpeg(j) \/ stream_spawn(j) \/ stream_next(j)
    \/ on_line_append(j) \/ on_line_publish(j) \/ local_finish(j)

RemoteStep(j) ==
    \/ api_pre(j) \/ api_ffmpeg(j) \/ api_select(j) \/ generic_call(j)
    \/ api_after_new(j) \/ api_sign(j) \/ api_finish(j)
    \/ new_begin(j) \/ new_log_url(j) \/ new_log_sig(j) \/ new_upload(j)
    \/ new_log_resp(j) \/ new_check(j) \/ new_budget(j) \/ new_loop(j)
    \/ new_poll(j) \/ new_status(j) \/ new_flat(j)
    \/ old_begin(j) \/ old_log_sig(j) \/ old_log_url(j) \/ old_upload(j)
    \/ old_check(j) \/ old_code(j) \/ old_reject(j) \/ old_loop(j) \/ old_poll(j)

WorkerStep(j) == CommonStep(j) \/ LocalStep(j) \/ RemoteStep(j)

Submit ==
    \/ transcribe_reject
    \/ \E j \in JobIds : \E m \in Modes : transcribe_accept(j, m)
    \/ \E j \in JobIds : transcribe_start(j)

Next == Submit \/ \E j \in JobIds : WorkerStep(j)

NextSubmit ==
    \/ transcribe_request
    \/ \E j \in JobIds : transcribe_start(j) \/ worker_begin(j)

NextRead ==
    \/ Submit
    \/ \E j \in JobIds : CommonStep(j) \/ LocalStep(j)
    \/ job_get \/ job_read \/ job_respond

\* Jobs side by side, with short process outputs and short waits.
Wide ==
    [alone |-> FALSE, lineCap |-> ShortLines, busyCap |-> ShortPolls, modes |-> Modes,
     scripts |-> FewScripts]
\* One job alone, with outputs longer than the tail window and servers that
\* stay busy beyond every budget.
Deep ==
    [alone |-> TRUE, lineCap |-> MaxLines, busyCap |-> MaxBusy, modes |-> Modes,
     scripts |-> 1..Len(Scripts)]
\* One local job and status queries.
Short ==
    [alone |-> TRUE, lineCap |-> ShortLines, busyCap |-> ShortPolls, modes |-> {"local"},
     scripts |-> FewScripts]

Spec == InitWith(Wide) /\ [][Next]_vars
SpecDeep == InitWith(Deep) /\ [][Next]_vars
SpecRead == InitWith(Short) /\ [][NextRead]_vars
SpecStore == InitWith(Short) /\ [][NextStore]_vars
SpecChat == InitWith(Short) /\ [][NextChat]_vars
SpecClassify == InitWith(Short) /\ [][NextClassify]_vars
SpecRunStream == InitWith(Short) /\ [][NextRunStream]_vars
SpecSigna == InitWith(Short) /\ [][signa_call]_vars
SpecSign == InitWith(Short) /\ [][sign_call]_vars
SpecOldExtract == InitWith(Short) /\ [][old_extract_call]_vars
SpecNewExtract == InitWith(Short) /\ [][new_extract_call]_vars
SpecEstimate == InitWith(Short) /\ [][estimate_call]_vars
SpecCandidates == InitWith(Short) /\ [][candidates_call]_vars
SpecSubmit == InitWith(Wide) /\ [][NextSubmit]_vars
\* Every started thread is scheduled again and again, and every process and
\* request it waits for returns.
SpecFair == InitWith(Deep) /\ [][Next]_vars /\ \A j \in JobIds : WF_vars(WorkerStep(j))

\* ------------------------------------------------------ job properties
IsPrefix(s, t) == Len(s) <= Len(t) /\ s = SubSeq(t, 1, Len(s))

StatusPaths == {<<"queued", "running", "done">>, <<"queued", "running", "error">>}

Terminal == {"done", "error"}

\* C1: for every job, the status values the registry held, in order, are a
\* prefix of queued, running, done or of queued, running, error, so that no
\* write changes a status that is done or error.
C1_StatusSequence == \A j \in JobIds : \E t \in StatusPaths : IsPrefix(hist[j], t)

\* C2: every started worker eventually returns with its job in status done
\* or error, whatever its steps answer, when every process and request it
\* waits for returns; the worker has no other way to end.
C2_WorkerEnds ==
    \A j \in JobIds :
        (pc[j] = "w_start") ~>
            (pc[j] = "returned" /\ j \in DOMAIN jobs /\ jobs[j].status \in Terminal)

\* A worker has returned after an exception was caught by its handler.
C2_Witness ==
    \E j \in DOMAIN jobs :
        /\ pc[j] = "returned"
        /\ jobs[j].status = "error"
        /\ jobs[j].message = Msg("exception", 0, 0)

\* C3: in every reachable state of the registry, the log_tail stored for a
\* job has at most 80 entries, whatever the number of lines the process
\* emits, also between the callback's append and its next upsert.
C3_TailBounded ==
    \A j \in DOMAIN jobs : "log_tail" \in DOMAIN jobs[j] => Len(jobs[j].log_tail) <= TailMax

\* C4: the values a status query returns all belong to one state the record
\* had between the handler's get and its response, and what the get returned
\* is not changed by later upserts.
C4_NoTornRead ==
    /\ reader.pc = "respond" =>
           \E s \in snaps :
               \A i \in 1..Len(ReadOrder) :
                   reader.resp[ReadOrder[i]] = FieldView(s, ReadOrder[i])
    /\ reader.pc # "idle" => jobs[reader.j] = reader.got

\* C5: an upsert creates the job when its id is absent and merges otherwise:
\* afterwards every named field holds the given value, every other field of
\* that job and every other job is as before; a get of an id never upserted
\* returns none and creates nothing, and a get never changes the registry.
C5_UpsertGet ==
    [][LET id == op'.id
           kw == op'.kw
       IN  /\ op'.name = "upsert" =>
                 /\ DOMAIN jobs' = (DOMAIN jobs) \cup {id}
                 /\ DOMAIN jobs'[id] =
                        (DOMAIN kw) \cup (IF id \in DOMAIN jobs THEN DOMAIN jobs[id] ELSE {})
                 /\ \A f \in DOMAIN kw : jobs'[id][f] = kw[f]
                 /\ id \in DOMAIN jobs =>
                        \A f \in (DOMAIN jobs[id]) \ (DOMAIN kw) : jobs'[id][f] = jobs[id][f]
                 /\ \A o \in (DOMAIN jobs) \ {id} : jobs'[o] = jobs[o]
           /\ op'.name = "get" =>
                 /\ jobs' = jobs
                 /\ op'.ret = (IF id \in DOMAIN jobs THEN id ELSE None)]_vars

\* A get of an id never upserted has returned none, beside a job whose
\* record was merged from several upserts.
C5_Witness ==
    /\ op.name = "get" /\ op.ret = None /\ op.id \notin DOMAIN jobs
    /\ \E o \in DOMAIN jobs :
           /\ {"status", "message", "progress", "log_tail", "text"} \subseteq DOMAIN jobs[o]
           /\ jobs[o].status = "done"
           /\ jobs[o].progress = 30

\* C6: under every interleaving of the upserts of different jobs, each job's
\* record is exactly what the submission handler and its own worker wrote,
\* in that worker's order: no write of another job alters it and none of its
\* own is lost.
C6_OwnRecord ==
    \A j \in JobIds :
        IF j \in DOMAIN jobs THEN jobs[j] = own[j] ELSE own[j] = EmptyDict

\* Two workers, one of each mode, have both written and ended differently.
C6_Witness ==
    /\ DOMAIN jobs = JobIds
    /\ \E a, b \in JobIds :
           /\ loc[a].mode = "local" /\ loc[b].mode = "api"
           /\ pc[a] = "l_stream" /\ "log_tail" \in DOMAIN jobs[a]
           /\ pc[b] = "returned" /\ jobs[b].status = "error"

\* ----------------------------------------------------- chat properties
\* A reply that holds a non-empty message body and no embedded error.
ValidReply(out) ==
    /\ out.kind = "return"
    /\ out.resp.shape = "object"
    /\ ~out.resp.error
    /\ out.resp.content # ""

RetryableFailure(out) == Failure(out) # <<>> /\ should_try_next_model(Failure(out)[1])
FatalFailure(out) == Failure(out) # <<>> /\ ~should_try_next_model(Failure(out)[1])

Returned(model, resp) == <<[kind |-> "return", model |-> model, resp |-> resp]>>
Raised(e) == <<[kind |-> "raise", err |-> e]>>

\* C7: the call function is invoked on the candidates in list order; a valid
\* reply of a candidate ends the call with that candidate and that reply and
\* no later candidate is called (so with [A,B,C], A failing retryably and B
\* replying validly, the result is (B, B's reply) and C is never called);
\* every candidate before the returned one has failed.
C7_FirstSuccess ==
    /\ chat.calls = SubSeq(chat.cands, 1, Len(chat.calls))
    /\ \A n \in 1..Len(chat.outs) :
           ValidReply(chat.outs[n]) =>
               /\ chat.pc = "done"
               /\ chat.result = Returned(chat.cands[n], chat.outs[n].resp)
               /\ Len(chat.calls) = n
    /\ (chat.pc = "done" /\ chat.result[1].kind = "return") =>
           LET n == Len(chat.calls)
           IN  /\ n >= 1
               /\ chat.outs[n].kind = "return"
               /\ chat.result = Returned(chat.cands[n], chat.outs[n].resp)
               /\ \A k \in 1..(n - 1) : Failure(chat.outs[k]) # <<>>

\* With [A,B,C], A has failed with HTTP 429, B has replied validly, and the
\* call has returned B.
C7_Witness ==
    /\ chat.pc = "done"
    /\ chat.cands = <<"A", "B", "C">>
    /\ chat.calls = <<"A", "B">>
    /\ chat.outs[1].kind = "raise" /\ chat.outs[1].err.code = 429
    /\ ValidReply(chat.outs[2])
    /\ chat.result[1].kind = "return" /\ chat.result[1].model = "B"

\* C8: when a candidate's call fails with a failure that is not classified
\* retryable, the function raises that very failure at once and calls no
\* later candidate.
C8_FatalAborts ==
    \A n \in 1..Len(chat.outs) :
        FatalFailure(chat.outs[n]) =>
            /\ chat.pc = "done"
            /\ Len(chat.calls) = n
            /\ chat.result = Raised(Failure(chat.outs[n])[1])

\* With [A,B], A has failed with HTTP 400 and B was not attempted.
C8_Witness ==
    /\ chat.pc = "done"
    /\ chat.cands = <<"A", "B">>
    /\ chat.calls = <<"A">>
    /\ chat.outs[1].kind = "raise" /\ chat.outs[1].err.code = 400
    /\ chat.result[1].kind = "raise"

\* The failure message of e as an aggregate holds it: cut as Shown cuts it,
\* or whole.
Said(e, cutting) == [of |-> e, cut |-> cutting /\ e.long]

\* The ends of a call on a non-empty candidate list.
OneOutcome(cutting) ==
    /\ chat.pc = "loop" => chat.result = <<>> /\ chat.i <= Len(chat.cands)
    /\ (chat.pc = "done" /\ chat.cands # <<>>) =>
           LET n == Len(chat.outs)
               r == chat.result[1]
           IN  /\ Len(chat.result) = 1
               /\ n >= 1
               /\ \A k \in 1..(n - 1) : RetryableFailure(chat.outs[k])
               /\ \/ /\ r.kind = "return"
                     /\ Failure(chat.outs[n]) = <<>>
                     /\ chat.result = Returned(chat.cands[n], chat.outs[n].resp)
                  \/ /\ r.kind = "raise"
                     /\ FatalFailure(chat.outs[n])
                     /\ r.err = Failure(chat.outs[n])[1]
                  \/ /\ r.kind = "raise"
                     /\ RetryableFailure(chat.outs[n])
                     /\ n = Len(chat.cands)
                     /\ r.err = AllFailed([k \in 1..n |->
                                             <<chat.cands[k],
                                               Said(Failure(chat.outs[k])[1], cutting)>>])

C10_InvalidReplyFails ==
    /\ \A n \in 1..Len(chat.outs) :
           (chat.outs[n].kind = "return" /\ ~ValidReply(chat.outs[n])) =>
               /\ Len(chat.errors) >= n
               /\ chat.errors[n][1] = chat.cands[n]
    /\ (chat.pc = "done" /\ chat.result[1].kind = "return") =>
           ValidReply([kind |-> "return", resp |-> chat.result[1].resp])

\* ----------------------------------------------- classifier properties
\* The signatures named transient: the status codes and the keywords.
TransientCodes == {402, 403, 404, 429} \cup (500..599)
TransientWords == {"quota", "rate limit", "timeout", "filtered", "refused", "not found"}

\* C11: a failure is classified retryable whenever its message carries a
\* status code of 402, 403, 404, 429 or any code in 500..599, and whenever
\* it holds one of the transient keywords.
C11_TransientRetried ==
    (op.name = "classify"
        /\ (op.kw.code \in TransientCodes \/ op.kw.words \cap TransientWords # {}))
    => op.ret

\* C12: the call function is invoked at most once per position of the
\* candidate list, in list order; a candidate is invoked only after the
\* attempt of the one before it ended in a retryable failure; the number of
\* calls never exceeds the length of the list.
C12_NoRetry ==
    /\ Len(chat.calls) <= Len(chat.cands)
    /\ Len(chat.outs) = Len(chat.calls)
    /\ \A k \in 1..Len(chat.calls) :
           /\ chat.calls[k] = chat.cands[k]
           /\ k > 1 => RetryableFailure(chat.outs[k - 1])

\* A list naming the same model at two positions: both positions were
\* called once each, the first having failed retryably.
C12_Witness ==
    /\ chat.pc = "done"
    /\ chat.cands = <<"A", "B", "A">>
    /\ chat.calls = <<"A", "B", "A">>
    /\ chat.outs[1] = chat.outs[3]
    /\ chat.result[1].kind = "raise"

\* ------------------------------------------------- polling properties
Polling(j) == pc[j] \in {"b_loop", "b_get", "b_status", "x_loop", "x_get"}

\* C13: both polling loops terminate whatever the server answers: the
\* number of result requests sent never exceeds the budget (120 in Variant
\* A, max_polls in Variant B), and the loop ends at the first response that
\* carries the success status or the explicit failure status.
C13_PollingEnds ==
    /\ [](\A j \in JobIds :
            /\ loc[j].sent <= loc[j].max_polls
            /\ pc[j] \in {"x_loop", "x_get"} => loc[j].max_polls = OldMaxPolls
            /\ pc[j] \in {"b_loop", "b_get", "b_status"} =>
                   loc[j].max_polls \in {NewMaxPolls(e) : e \in Estimates})
    /\ [][\A j \in JobIds :
            /\ (pc[j] = "b_status" /\ loc[j].status \in {2, 4}) =>
                   pc'[j] \in {"b_status", "b_flat", "b_ret"}
            /\ (pc[j] = "x_get" /\ loc'[j].status = 4) => pc'[j] \in {"x_get", "a_result"}
            /\ (pc[j] = "x_loop" /\ loc[j].status # 3) => pc'[j] \in {"x_loop", "a_result"}]_vars
    /\ \A j \in JobIds : Polling(j) ~> ~Polling(j)

\* Variant B has given up after the 144 polls of its budget, the server
\* still reporting the order in progress.
C13_Witness ==
    \E j \in JobIds :
        /\ pc[j] = "b_ret"
        /\ loc[j].res = TimedOut(144)
        /\ loc[j].sent = 144
        /\ loc[j].busy = 144

\* C14: a remote transcription returns the poll-timeout outcome only when
\* the number of polls performed equals the attempt budget, so that in
\* Variant A a response whose status is neither 3 nor 4 is not reported as
\* a timeout.
C14_TimeoutMeansBudget ==
    \A j \in JobIds :
        (loc[j].res # <<>> /\ loc[j].res[1].why = "timeout") =>
            /\ loc[j].res[1].polls = loc[j].max_polls
            /\ loc[j].sent = loc[j].max_polls

\* ------------------------------------------------ callback properties
\* The n-th line of output sc as the callback keeps it.
Kept(sc, n) == Strip(ScriptLine(sc, n))

\* Job j runs the recognizer and every callback called so far has returned.
Settled(j) ==
    /\ j \in DOMAIN jobs
    /\ loc[j].mode = "local" /\ loc[j].script # 0
    /\ pc[j] = "l_stream" /\ loc[j].k >= 1

ProgressEq == <<"p", "r", "o", "g", "r", "e", "s", "s", "=">>

\* A line of the form progress=NN% and its number.
ExplicitForm(s) ==
    /\ Len(s) >= 11
    /\ SubSeq(s, 1, 9) = ProgressEq
    /\ s[Len(s)] = "%"
    /\ IsInt(SubSeq(s, 10, Len(s) - 1))
ExplicitValue(s) == IntVal(SubSeq(s, 10, Len(s) - 1))

\* A line that ends in NN% with NN of one to three digits, in 0..100, and
\* is not of the explicit form; and its number.
PercentStart(s) ==
    CHOOSE i \in 1..Len(s) :
        /\ IsInt(SubSeq(s, i, Len(s) - 1))
        /\ i = 1 \/ s[i - 1] \notin Digits
OpportunisticForm(s) ==
    /\ Len(s) >= 2
    /\ s[Len(s)] = "%" /\ s[Len(s) - 1] \in Digits
    /\ ~ExplicitForm(s)
    /\ Len(s) - PercentStart(s) <= 3
    /\ IntVal(SubSeq(s, PercentStart(s), Len(s) - 1)) <= 100
PercentValue(s) == IntVal(SubSeq(s, PercentStart(s), Len(s) - 1))

\* C15: after a line of the form progress=NN% the job's stored progress is
\* NN, whatever it was before: after "progress=42%" then "progress=10%" it
\* is 10.
C15_ExplicitOverwrites ==
    \A j \in JobIds :
        (Settled(j) /\ ExplicitForm(Kept(loc[j].script, loc[j].k))) =>
            /\ "progress" \in DOMAIN jobs[j]
            /\ jobs[j].progress = ExplicitValue(Kept(loc[j].script, loc[j].k))

\* C16: while every line fed matches only the standalone NN% pattern with NN
\* in 0..100, the stored progress after each line is the greatest of the
\* values seen so far: after "hello 30%" then "hello 10%" it is 30.
C16_RunningMax ==
    \A j \in JobIds :
        (Settled(j) /\ \A n \in 1..loc[j].k : OpportunisticForm(Kept(loc[j].script, n))) =>
            /\ "progress" \in DOMAIN jobs[j]
            /\ \A n \in 1..loc[j].k :
                   jobs[j].progress >= PercentValue(Kept(loc[j].script, n))
            /\ \E n \in 1..loc[j].k :
                   jobs[j].progress = PercentValue(Kept(loc[j].script, n))

\* C17: in every reachable state a job's progress is absent or an integer
\* in 0..100, whatever lines the recognizer prints and however long a
\* remote server is polled.
C17_ProgressRange ==
    \A j \in DOMAIN jobs : "progress" \in DOMAIN jobs[j] => jobs[j].progress \in 0..100

\* The callback has handled a line "progress=150%".
C17_Witness ==
    \E j \in JobIds :
        /\ Settled(j)
        /\ ScriptLine(loc[j].script, 1) = LnProg150
        /\ "progress" \in DOMAIN jobs[j]
        /\ "log_tail" \in DOMAIN jobs[j]

\* The non-empty lines among the first n of output sc, as kept.
RECURSIVE NonEmpty(_, _)
NonEmpty(sc, n) ==
    IF n = 0 THEN <<>>
    ELSE IF Kept(sc, n) = <<>> THEN NonEmpty(sc, n - 1)
         ELSE Append(NonEmpty(sc, n - 1), Kept(sc, n))

\* The last 80 entries of lines, oldest first.
Window(lines) ==
    IF Len(lines) <= 80 THEN lines ELSE SubSeq(lines, Len(lines) - 79, Len(lines))

\* C18: after the callback has been fed lines of which n are non-empty, the
\* log_tail stored in the registry is the last min(n, 80) of them in the
\* order of emission, whether or not a line held a percentage; empty lines
\* change nothing.
C18_TailWindow ==
    \A j \in JobIds :
        Settled(j) =>
            LET lines == NonEmpty(loc[j].script, loc[j].k)
            IN  IF lines = <<>>
                THEN "log_tail" \notin DOMAIN jobs[j]
                ELSE /\ "log_tail" \in DOMAIN jobs[j]
                     /\ jobs[j].log_tail = Window(lines)

\* 82 non-empty lines were fed, none holding a percentage the patterns
\* find: the two oldest have left the window.
C18_Witness ==
    \E j \in JobIds :
        /\ Settled(j)
        /\ loc[j].script = 1 /\ loc[j].k = 82
        /\ Len(jobs[j].log_tail) = 80

\* The number of the last non-empty line among the first n of output sc, 0
\* when there is none; and of the first one after line m.
LastNonEmpty(sc, n) ==
    LET ms == {m \in 1..n : Kept(sc, m) # <<>>}
    IN  IF ms = {} THEN 0 ELSE CHOOSE m \in ms : \A x \in ms : x <= m
NextNonEmpty(sc, m) ==
    CHOOSE n \in (m + 1)..(m + 3) : Kept(sc, n) # <<>> /\ LastNonEmpty(sc, n - 1) <= m

\* C19: within a job the registry writes caused by process output are
\* applied in the order of the lines: the write for a line is complete when
\* the callback for the next line starts, no line's write is skipped or
\* applied out of turn, and all are complete when the worker writes its
\* terminal status.
C19_WritesInOrder ==
    /\ [](\A j \in JobIds :
            (loc[j].mode = "local" /\ loc[j].script # 0) =>
                /\ pc[j] \in {"l_online", "l_publish"} =>
                       loc[j].pub = LastNonEmpty(loc[j].script, loc[j].k - 1)
                /\ pc[j] \in {"l_stream", "l_done", "post", "return", "except"} =>
                       loc[j].pub = LastNonEmpty(loc[j].script, loc[j].k))
    /\ [][\A j \in JobIds :
            (loc'[j].pub # loc[j].pub /\ loc'[j].pub # 0) =>
                /\ loc'[j].pub = NextNonEmpty(loc[j].script, loc[j].pub)
                /\ jobs'[j].log_tail[Len(jobs'[j].log_tail)] = Kept(loc[j].script, loc'[j].pub)
                /\ jobs[j].status = "running"]_vars

\* The recognizer has printed ten lines, some of them empty, and the worker
\* has written done.
C19_Witness ==
    \E j \in DOMAIN jobs :
        /\ loc[j].mode = "local" /\ loc[j].script = 6
        /\ loc[j].k = 10 /\ loc[j].pub = 10
        /\ pc[j] = "post"
        /\ jobs[j].status = "done"

\* -------------------------------------------------- runner properties
\* C20: when the executable cannot be found the run returns the pair (127,
\* diagnostic text) and raises nothing, the per-line callback is never
\* called, and the worker handles it as a failed run: it writes the
\* terminal status error.
C20_MissingBinary ==
    \A j \in JobIds :
        loc[j].rc = 127 =>
            /\ pc[j] \in {"l_done", "return"}
            /\ loc[j].k = 0 /\ loc[j].pub = 0 /\ loc[j].log_tail = <<>>
            /\ pc[j] = "l_done" => loc[j].out_lines = <<Diag127>>
            /\ pc[j] = "return" =>
                   /\ jobs[j].status = "error"
                   /\ jobs[j].log = Diag127

\* The recognizer's binary was missing and the worker has written error.
C20_Witness ==
    \E j \in DOMAIN jobs :
        /\ loc[j].rc = 127
        /\ loc[j].invoked = <<"ffmpeg", "whisper">>
        /\ pc[j] = "return"
        /\ jobs[j].status = "error"
        /\ jobs[j].message = Msg("whisper_failed", 0, 0)

\* The lines m..n of output sc, in order.
Emitted(sc, m, n) == [i \in 1..(n - m + 1) |-> ScriptLine(sc, m + i - 1)]

\* C21: in a streaming run the callback is called exactly once for every
\* line the process prints, in the order of arrival, also when a call
\* raises; after each line the capture buffer holds at most
\* max_capture_lines lines, and the text returned is the last
\* min(n, max_capture_lines) of the n lines printed, joined in order.
C21_StreamCapture ==
    op.name \in {"run_stream", "run_stream_return"} =>
        LET l == op.kw
            kept == Min(l.k, l.cap)
        IN  /\ l.on_line => l.called = Emitted(l.script, 1, l.k)
            /\ ~l.on_line => l.called = <<>>
            /\ Len(l.out_lines) <= l.cap
            /\ l.out_lines = Emitted(l.script, l.k - kept + 1, l.k)
            /\ op.name = "run_stream_return" =>
                   op.ret[2] = Join(Emitted(l.script, l.k - kept + 1, l.k))

\* A run with cap 2 has read five lines, the callback raising on some, and
\* has returned the last two.
C21_Witness ==
    /\ op.name = "run_stream_return"
    /\ op.kw.cap = 2 /\ op.kw.k = 5 /\ op.kw.script = 2
    /\ Len(op.kw.called) = 5 /\ op.kw.raised >= 1
    /\ op.ret[2] = Join(<<ScriptLine(2, 4), ScriptLine(2, 5)>>)

\* ------------------------------------------------ selection properties
VariantB == {"b_begin", "b_log1", "b_log2", "b_post", "b_log3", "b_check", "b_budget",
             "b_loop", "b_get", "b_status", "b_flat", "b_ret"}
VariantA == {"a_sign", "x_begin", "x_log1", "x_log2", "x_post", "x_check", "x_code",
             "x_reject", "x_loop", "x_get"}

\* C22: with key and secret both configured Variant B is attempted first;
\* Variant A is attempted after it only when Variant B failed with a message
\* that indicates an unimplemented path or a fallback; when Variant B
\* succeeded, or failed because the provider turned the request down
\* (whatever text the provider's response holds), its result is returned
\* as it is and Variant A is not attempted.
C22_SelectionPolicy ==
    [][\A j \in JobIds :
        /\ (pc[j] = "a_cfg" /\ pc'[j] # "a_cfg" /\ loc'[j].cfg[1].api_type = "xunfei"
               /\ loc'[j].cfg[1].appid /\ loc'[j].cfg[1].key /\ loc'[j].cfg[1].secret)
              => pc'[j] = "b_begin"
        /\ (pc[j] = "b_ret" /\ pc'[j] = "a_sign")
              => ~loc[j].res[1].ok /\ loc[j].res[1].hint
        /\ (pc[j] = "b_ret" /\ (loc[j].res[1].ok \/ loc[j].res[1].why = "rejected"))
              => pc'[j] \in {"b_ret", "a_result"} /\ loc'[j].res = loc[j].res]_vars

\* C23: Variant A is signed with one credential, the key when a key is
\* configured (also when the secret is configured too) and the secret
\* otherwise; with only one of key and secret configured Variant B is not
\* attempted; with neither of them, or without an appId, a failure is
\* returned and no remote request is made.
C23_OneCredential ==
    /\ [](\A j \in JobIds :
            pc[j] \in VariantB => loc[j].cfg[1].key /\ loc[j].cfg[1].secret)
    /\ [][\A j \in JobIds :
            /\ (pc[j] = "a_sign" /\ pc'[j] # "a_sign") =>
                   LET c == loc[j].cfg[1]
                   IN  /\ c.appid /\ (c.key \/ c.secret)
                       /\ pc'[j] = "x_begin"
                       /\ jobs'[j].log_tail =
                              <<<<"sign with", IF c.key THEN "key" ELSE "secret">>>>
            /\ (pc[j] = "a_cfg" /\ pc'[j] # "a_cfg" /\ loc'[j].cfg[1].api_type = "xunfei") =>
                   LET c == loc'[j].cfg[1]
                   IN  /\ (c.appid /\ c.key # c.secret) => pc'[j] = "a_sign"
                       /\ (~c.appid \/ (~c.key /\ ~c.secret)) =>
                              /\ pc'[j] = "a_result"
                              /\ ~loc'[j].res[1].ok
                              /\ loc'[j].invoked = loc[j].invoked]_vars

\* Key and secret are both configured, Variant B has sent requests and
\* failed, and Variant A has been signed with the key.
C23_Witness ==
    \E j \in DOMAIN jobs :
        /\ pc[j] = "x_begin"
        /\ loc[j].invoked = <<"ffmpeg", "remote">>
        /\ jobs[j].log_tail = <<<<"sign with", "key">>>>

\* ------------------------------------------------ signature properties
\* The number of inputs in which two calls of the signature differ.
Differing(a, b) ==
    Cardinality({f \in {"appid", "secret_key", "ts"} : a[f] # b[f]})

Reordered(d) ==
    {[i \in 1..Len(d) |-> d[f[i]]] :
        f \in {g \in [1..Len(d) -> 1..Len(d)] : \A i, j \in 1..Len(d) : i # j => g[i] # g[j]}}

\* The dicts that differ from d in the signature entry alone: without it,
\* or with it at any place and of any value.
Resigned(d) ==
    LET rest == SelectSeq(d, LAMBDA kv : kv[1] # KeySignature)
    IN  {rest} \cup {SubSeq(rest, 1, n) \o <<<<KeySignature, v>>>>
                         \o SubSeq(rest, n + 1, Len(rest)) :
                      n \in 0..Len(rest), v \in ParamValues}

\* C25: Variant B's canonical string, and with it the signature, is the same
\* for every insertion order of the same parameters; the names appear in it
\* in ascending lexicographic order; a signature entry among the
\* parameters, whatever its value, changes nothing.
C25_CanonicalString ==
    op.name = "sign" =>
        LET l == op.kw
        IN  /\ \A i, j \in 1..Len(l.signed) :
                   i < j => StrLess(l.signed[i][1], l.signed[j][1])
            /\ \A i \in 1..Len(l.signed) : l.signed[i][1] # KeySignature
            /\ l.base = JoinParts(l.signed)
            /\ \A d \in Reordered(l.params) \cup Resigned(l.params) :
                   LET b == base_string(d, l.strict)
                   IN  b = l.base /\ B64(HmacSha1(ApiSecret, b)) = op.ret

\* A dict given in descending order of its names, with a signature entry
\* between them.
C25_Witness ==
    /\ op.name = "sign"
    /\ Len(op.kw.params) = 3
    /\ op.kw.params[1][1] = <<"a", "p", "p", "I", "d">>
    /\ op.kw.params[2] = <<KeySignature, <<" ">>>>
    /\ op.kw.params[3] = <<<<"Z", "o", "n", "e">>, <<"a", "&", "b">>>>
    /\ op.kw.params[1][2] = <<" ">>
    /\ ~op.kw.strict
    /\ op.kw.base = <<"Z", "o", "n", "e", "=", "a", "%", "2", "6", "b", "&",
                      "a", "p", "p", "I", "d", "=", "%", "2", "0">>

\* ------------------------------------------------ extraction properties
\* The first of the texts that holds more than white space, 0 without one.
FirstText(texts) ==
    LET ps == {p \in 1..Len(texts) : Strip(texts[p]) # <<>>}
    IN  IF ps = {} THEN 0 ELSE CHOOSE p \in ps : \A q \in ps : p <= q

\* C26: on a complete response Variant A looks at orderInfo.result,
\* content.result, content.text and content.data in this order and returns
\* success with the first text found that is not empty; when none of the
\* four holds such a text it returns failure with the start of the raw
\* response, and it never returns success with an empty text.
C26_OldExtraction ==
    op.name = "old_extract" =>
        LET p == FirstText(op.kw.paths)
        IN  /\ op.ret.ok => op.ret.text # <<>>
            /\ p = 0 => ~op.ret.ok /\ op.ret.preview = <<op.kw.response>>
            /\ p # 0 => op.ret.ok /\ op.ret.text = Strip(op.kw.paths[p])

\* ------------------------------------------------ status properties
\* C27: in Variant B, for every response that passed the envelope check:
\* status 4 ends the polling with the result of the extraction, status 2
\* ends it at once with a failure, both without a further request, and
\* status 0 or 3 is followed by a wait and, while the budget lasts, by
\* another poll.
C27_StatusMapping ==
    [][\A j \in JobIds :
        /\ (pc[j] = "b_status" /\ pc'[j] # "b_status") =>
               /\ loc'[j].sent = loc[j].sent
               /\ loc[j].status = 4 => pc'[j] \in {"b_ret", "b_flat"}
               /\ loc[j].status = 2 => pc'[j] = "b_ret" /\ ~loc'[j].res[1].ok
               /\ loc[j].status \in {0, 3} => pc'[j] = "b_loop"
        /\ (pc[j] = "b_flat" /\ pc'[j] # "b_flat") =>
               pc'[j] = "b_ret" /\ loc'[j].sent = loc[j].sent
        /\ (pc[j] = "b_loop" /\ pc'[j] # "b_loop"
               /\ loc[j].poll_count < loc[j].max_polls) => pc'[j] = "b_get"
        /\ (pc[j] = "b_get" /\ pc'[j] # "b_get") => loc'[j].sent = loc[j].sent + 1]_vars

\* C28: on a complete response of Variant B, when the lattice holds words
\* the transcript is all its non-empty word tokens joined in the order of
\* segment, rt, ws and cw; when the lattice gives no text the flatter
\* fields are tried; when nothing gives a text that is not empty the result
\* is a failure with a diagnostic, and success never comes with an empty
\* text.
C28_NewExtraction ==
    op.name = "new_extract" =>
        LET l == op.kw
            flat == {Strip(l.paths[p]) : p \in 2..4}
        IN  /\ \A i \in 1..Len(l.words) : l.words[i] # <<>>
            /\ l.paths[1] = Join(l.words)
            /\ op.ret.ok => op.ret.text # <<>>
            /\ Strip(l.paths[1]) # <<>> => op.ret.ok /\ op.ret.text = Strip(l.paths[1])
            /\ (l.paths[1] = <<>> /\ op.ret.ok) => op.ret.text \in flat
            /\ (\A p \in 1..4 : l.paths[p] = <<>>) =>
                   ~op.ret.ok /\ op.ret.preview = <<l.response>>

\* ------------------------------------------------ budget properties
\* floor(a / b) for b > 0.
Floor(a, b) == CHOOSE q \in ((0 - 2000)..2000) : q * b <= a /\ a < (q + 1) * b

\* C29: for an integer estimate E (ms), Variant B's attempt budget is
\* max(120, max(600, 3 * floor(E / 1000)) div 5): never below 120 polls and
\* never smaller for a greater E; the delay between polls is 5, 7 or 10
\* seconds and never shorter for a greater estimate of the poll response.
C29_BudgetAndBackoff ==
    op.name = "estimate" =>
        LET e == op.kw.estimate
            secs == 3 * Floor(e, 1000)
            wait == IF secs > 600 THEN secs ELSE 600
            polls == Floor(wait, 5)
        IN  /\ op.ret.max_polls = (IF polls > 120 THEN polls ELSE 120)
            /\ op.ret.max_polls >= 120
            /\ op.ret.wait_time \in {5, 7, 10}
            /\ (op.kw.before # <<>> /\ op.kw.before[1].estimate <= e) =>
                   /\ op.kw.before[1].ret.max_polls <= op.ret.max_polls
                   /\ op.kw.before[1].ret.wait_time <= op.ret.wait_time

\* An estimate of 240 s after one of 59.999 s: 144 polls after 120, a
\* delay of 10 s after 7 s.
C29_Witness ==
    /\ op.name = "estimate" /\ op.kw.estimate = 240000
    /\ op.ret = [max_polls |-> 144, wait_time |-> 10]
    /\ op.kw.before = <<[estimate |-> 59999, ret |-> [max_polls |-> 120, wait_time |-> 7]]>>

\* ------------------------------------------------ candidate properties
\* The strings of a source hold a candidate: one of them is not blank.
HoldsCandidate(strs) == \E j \in 1..Len(strs) : Strip(strs[j]) # <<>>

\* Position of the first string of the source that is the candidate m.
FirstAt(strs, m) ==
    CHOOSE j \in 1..Len(strs) :
        Strip(strs[j]) = m /\ \A k \in 1..(j - 1) : Strip(strs[k]) # m

\* res is the candidates of the source: every non-blank string of it,
\* stripped, nothing else, each once, in the source's order.
CandidatesOf(res, strs) ==
    /\ \A i \in 1..Len(res) :
          res[i] # <<>> /\ \E j \in 1..Len(strs) : Strip(strs[j]) = res[i]
    /\ \A j \in 1..Len(strs) :
          Strip(strs[j]) # <<>> => \E i \in 1..Len(res) : res[i] = Strip(strs[j])
    /\ \A i, k \in 1..Len(res) : i < k => FirstAt(strs, res[i]) < FirstAt(strs, res[k])

\* C30: build_model_candidates returns the candidates of one source only,
\* the first that holds any among the configured list, the parsed file and
\* the single configured string, in that source's order, and returns the
\* empty list only when none of the three holds a candidate.
C30_OneSource ==
    op.name = "candidates" =>
        LET listed == ListStrs(op.kw.cfg.openrouter_models)
            parsed == FileStrs(op.kw.js_file)
            single == SingleStrs(op.kw.cfg.openrouter_model)
        IN  IF HoldsCandidate(listed) THEN CandidatesOf(op.ret, listed)
            ELSE IF HoldsCandidate(parsed) THEN CandidatesOf(op.ret, parsed)
            ELSE IF HoldsCandidate(single) THEN CandidatesOf(op.ret, single)
            ELSE op.ret = <<>>

\* A configured list of a null and a blank string, the file ["b",'a'] and
\* the configured string "c ": the file's candidates are returned.
C30_Witness ==
    /\ op.name = "candidates"
    /\ op.kw.cfg.openrouter_models = List(<<Null, Str(<<" ">>)>>)
    /\ op.kw.cfg.openrouter_model = Str(<<"c", " ">>)
    /\ op.kw.js_file = <<<<"[", "\"", "b", "\"", ",", "'", "a", "'", "]">>>>
    /\ op.ret = <<<<"b">>, <<"a">>>>

\* ------------------------------------------------ worker properties
\* The registry has shown job j in status s.
Reached(j, s) == \E i \in 1..Len(hist[j]) : hist[j][i] = s

\* C31: a job whose status has not reached done has no text or an empty
\* one; a write that changes a job's text is the write that sets its status
\* to done, so a job in error that was never done has no text.
C31_TextOnlyWhenDone ==
    /\ [](\A j \in DOMAIN jobs :
            ~Reached(j, "done") => DictGetOr(jobs[j], "text", "") = "")
    /\ [][\A j \in DOMAIN jobs' :
            DictGet(jobs'[j], "text")
                # (IF j \in DOMAIN jobs THEN DictGet(jobs[j], "text") ELSE <<>>)
            => /\ jobs'[j].status = "done"
               /\ ~Reached(j, "done")]_vars

\* One job is done with its transcript while another, never done, is in
\* error and has no text.
C31_Witness ==
    /\ DOMAIN jobs = JobIds
    /\ jobs[1].status = "done" /\ jobs[1].text = "words"
    /\ jobs[2].status = "error" /\ ~Reached(2, "done") /\ "text" \notin DOMAIN jobs[2]

\* The recognizer process or the first remote request of job j starts in
\* this step.
BackendStarts(j) ==
    /\ Len(loc'[j].invoked) > Len(loc[j].invoked)
    /\ loc'[j].invoked[Len(loc'[j].invoked)] \in {"whisper", "remote"}

\* C32: the worker runs the transcoder before the backend of its mode and
\* starts the backend only after the transcoder succeeded; when the
\* transcoder fails the job is in error and neither a recognizer nor a
\* remote request was started; a model file missing in local mode puts the
\* job in error before the transcoder is run.
C32_TranscodeFirst ==
    /\ [](\A j \in JobIds :
            \/ IsPrefix(loc[j].invoked, <<"ffmpeg", "whisper">>) /\ loc[j].mode # "api"
            \/ IsPrefix(loc[j].invoked, <<"ffmpeg", "remote">>) /\ loc[j].mode = "api")
    /\ [][\A j \in JobIds :
            BackendStarts(j) => loc[j].invoked = <<"ffmpeg">> /\ loc[j].ok = <<TRUE>>]_vars
    /\ [](\A j \in DOMAIN jobs :
            /\ (loc[j].ok = <<FALSE>> \/ jobs[j].message = Msg("ffmpeg_failed", 0, 0))
                  => jobs[j].status = "error" /\ loc[j].invoked = <<"ffmpeg">>
            /\ jobs[j].message = Msg("no_model", 0, 0)
                  => jobs[j].status = "error" /\ loc[j].invoked = <<>>
                     /\ loc[j].mode = "local")

\* A local job whose transcoder failed has returned in error having run
\* the transcoder only, while an API job has sent a request after its
\* transcoder succeeded.
C32_Witness ==
    /\ DOMAIN jobs = JobIds
    /\ loc[1].mode = "local" /\ pc[1] = "returned" /\ jobs[1].status = "error"
    /\ jobs[1].message = Msg("ffmpeg_failed", 0, 0) /\ loc[1].invoked = <<"ffmpeg">>
    /\ loc[2].mode = "api" /\ loc[2].ok = <<TRUE>> /\ loc[2].invoked = <<"ffmpeg", "remote">>

\* C33: in local mode a worker whose recognizer exited with code 0 and
\* left no transcript file under either name ends with its job done and an
\* empty text; one whose recognizer exited with another code ends with its
\* job in error, and no transcript file was read.
C33_NoTranscriptFile ==
    \A j \in DOMAIN jobs :
        (pc[j] = "return" /\ loc[j].mode = "local"
            /\ loc[j].invoked = <<"ffmpeg", "whisper">>) =>
            /\ (loc[j].rc = 0 /\ loc[j].found = "neither") =>
                  jobs[j].status = "done" /\ jobs[j].text = ""
            /\ loc[j].rc # 0 =>
                  /\ jobs[j].status = "error"
                  /\ loc[j].found = "unread"
                  /\ "text" \notin DOMAIN jobs[j]

\* C34: once the registry has shown a job in status done or error, no
\* later step changes the job's text, progress or log_tail.
C34_FrozenAfterTerminal ==
    [][\A j \in DOMAIN jobs :
          (Reached(j, "done") \/ Reached(j, "error")) =>
              \A f \in {"text", "progress", "log_tail"} :
                  DictGet(jobs'[j], f) = DictGet(jobs[j], f)]_vars

\* A local job that was done with a transcript, a progress and a log tail
\* has gone to error by a later write, the three fields still in place.
C34_Witness ==
    \E j \in DOMAIN jobs :
        /\ hist[j] = <<"queued", "running", "done", "error">>
        /\ {"text", "progress", "log_tail"} \subseteq DOMAIN jobs[j]
        /\ jobs[j].text = "words" /\ jobs[j].log_tail # <<>>

\* ------------------------------------------------ validation properties
\* C35: every failure raised by the check of a response inside
\* chat_with_model_fallback is retryable for should_try_next_model, so the
\* call does not end by raising it: the chain goes on to the next
\* candidate.
C35_ValidationRetryable ==
    \A i \in 1..Len(chat.outs) :
        (chat.outs[i].kind = "return" /\ Validate(chat.outs[i].resp) # <<>>) =>
            LET e == Validate(chat.outs[i].resp)[1]
            IN  /\ should_try_next_model(e)
                /\ ~(chat.pc = "done" /\ chat.result = <<[kind |-> "raise", err |-> e]>>)
                /\ (i < Len(chat.cands) /\ chat.pc = "done") => Len(chat.calls) > i

\* The call has ended raising err.
EndedRaising(err) == chat.pc = "done" /\ chat.result = <<[kind |-> "raise", err |-> err]>>

\* C36: a call with an empty candidate list ends raising the 'no
\* candidates' error without a call of call_fn; that error is raised for an
\* empty list only and is never the aggregate raised after every candidate
\* failed.
C36_NoCandidatesError ==
    /\ (chat.pc = "done" /\ chat.cands = <<>>) => EndedRaising(NoCandidates) /\ chat.calls = <<>>
    /\ EndedRaising(NoCandidates) => chat.cands = <<>>
    /\ EndedRaising(AllFailed(chat.errors)) =>
          /\ chat.cands # <<>> /\ Len(chat.calls) = Len(chat.cands)
          /\ AllFailed(chat.errors) # NoCandidates

\* A call with no candidates has ended.
C36_Witness == chat.cands = <<>> /\ chat.calls = <<>> /\ EndedRaising(NoCandidates)

\* ------------------------------------------------ submission properties
\* C37: a request with an invalid mode, without the model file in local
\* mode, without the remote configuration in API mode, without a file
\* field or with an empty file name is rejected; a rejected request
\* changes no job and starts no worker; an accepted one adds exactly one
\* job, in status queued, and the worker of a job starts only after the
\* job's queued write.
C37_SubmissionEffects ==
    /\ [](op.name = "transcribe" =>
            LET req == op.kw
                mode == Field(req.mode, <<"l", "o", "c", "a", "l">>)
                api == mode = <<"a", "p", "i">>
                xunfei == Field(req.cfg.stt_api_type, <<>>) = <<"x", "u", "n", "f", "e", "i">>
                blank(e) == e = <<>> \/ e[1] \in {<<>>, <<" ">>}
            IN  (\/ ~api /\ mode # <<"l", "o", "c", "a", "l">>
                 \/ ~api /\ ~req.model_exists
                 \/ api /\ xunfei /\ blank(req.cfg.stt_api_appid)
                 \/ api /\ xunfei /\ blank(req.cfg.stt_api_key) /\ blank(req.cfg.stt_api_secret_key)
                 \/ api /\ ~xunfei /\ blank(req.cfg.stt_api_url)
                 \/ req.file # "named") <=> op.ret.code = 400)
    /\ [][op' # op =>
            IF op'.ret.code = 400
            THEN jobs' = jobs /\ pc' = pc
            ELSE \E j \in JobIds \ DOMAIN jobs :
                   /\ op'.id = j
                   /\ DOMAIN jobs' = DOMAIN jobs \cup {j}
                   /\ jobs'[j].status = "queued"
                   /\ pc[j] = "none" /\ pc'[j] = "accepted"
                   /\ \A i \in JobIds \ {j} : pc'[i] = pc[i]
                   /\ \A i \in DOMAIN jobs : jobs'[i] = jobs[i]]_vars
    /\ [](\A j \in JobIds :
            pc[j] \notin {"none", "accepted"} => hist[j] # <<>> /\ hist[j][1] = "queued")

\* A request without a file field was rejected after a job had been
\* accepted and its worker started: the registry holds that job alone.
C37_Witness ==
    /\ op.name = "transcribe" /\ op.ret = [code |-> 400, error |-> "no_file"]
    /\ DOMAIN jobs = {1} /\ pc = (1 :> "w_start" @@ 2 :> "none")
    /\ jobs[1].status = "queued"

\* ------------------------------------------------ poll progress properties
\* C38: while a worker is in the polling loop of Variant A or B, the
\* progress of its job is 50 + min(40, k * 40 div max_polls) for the number
\* k of the poll last begun: a value in 50..90 that no step of the loop
\* lowers.
C38_PollProgress ==
    /\ [](\A j \in JobIds :
            Polling(j) =>
                LET k == loc[j].poll_count
                    share == (k * 40) \div loc[j].max_polls
                IN  /\ jobs[j].progress = 50 + (IF share < 40 THEN share ELSE 40)
                    /\ jobs[j].progress \in 50..90)
    /\ [][\A j \in JobIds :
            (Polling(j) /\ Polling(j)') =>
                /\ loc'[j].poll_count >= loc[j].poll_count
                /\ jobs'[j].progress >= jobs[j].progress]_vars

\* Variant B at poll 100 of 144 has written the progress 77.
C38_Witness ==
    \E j \in JobIds :
        /\ pc[j] = "b_get" /\ loc[j].poll_count = 100 /\ loc[j].max_polls = 144
        /\ jobs[j].progress = 77

\* ------------------------------------------------ callback failure properties
\* C39: in a streaming run a call of the callback that raises does not end
\* the run: the line it was called with joins the capture buffer as its
\* last line, the callback goes on being called for every later line, and
\* the run returns the exit code of the process with the captured text.
C39_CallbackErrorSwallowed ==
    /\ [][(op.name = "run_stream" /\ op'.name = "run_stream"
              /\ op'.kw.raised > op.kw.raised) =>
             LET line == ScriptLine(op.kw.script, op.kw.k + 1)
             IN  /\ op'.kw.called = Append(op.kw.called, line)
                 /\ op'.kw.out_lines # <<>>
                 /\ op'.kw.out_lines[Len(op'.kw.out_lines)] = line]_vars
    /\ []((op.name \in {"run_stream", "run_stream_return"} /\ op.kw.raised >= 1) =>
            /\ op.kw.called = Emitted(op.kw.script, 1, op.kw.k)
            /\ op.name = "run_stream_return" =>
                  op.ret = <<op.kw.exit, Join(op.kw.out_lines)>>)

\* A run whose callback raised on each of its five lines has returned the
\* exit code 1 of the process and the last three lines.
C39_Witness ==
    /\ op.name = "run_stream_return"
    /\ op.kw.raised = 5 /\ op.kw.k = 5 /\ op.kw.cap = 3 /\ op.kw.exit = 1
    /\ op.ret = <<1, Join(Emitted(op.kw.script, 3, 5))>>

====
